---- MODULE Spec2Model ----
(***************************************************************************)
(* Jellron: the keypoint aggregation and derivation engine (class Mesh)    *)
(* together with the Keypoint value object.                                *)
(*                                                                         *)
(* Numbers.  Every JavaScript number n of the program is represented by    *)
(* the integer n * Unit.  Unit is the product of the divisors the code     *)
(* uses (2, 3, 5), taken often enough that every division the model        *)
(* performs on the inputs below is exact; floating-point rounding is not   *)
(* modelled.  A scale factor is kept as a fraction (numerator and          *)
(* denominator) and applied by one multiplication and one division; a      *)
(* rotation is kept as the number of degrees handed to setRotationY/Z.     *)
(*                                                                         *)
(* Objects.  A Keypoint is a record; its field id is the identity of the   *)
(* JavaScript object (two records with equal id are the same object).      *)
(* Arrays are 1-based sequences: JavaScript index i is position i + 1.     *)
(***************************************************************************)
EXTENDS Integers, Sequences, FiniteSets, TLC

VARIABLES
    bodyKeypoints,      \* Mesh.bodyKeypoints
    faceKeypoints,      \* Mesh.faceKeypoints
    handKeypoints,      \* Mesh.handKeypoints
    chokerKeypoint,     \* Mesh.chokerKeypoint
    necklaceKeypoint,   \* Mesh.necklaceKeypoint
    earlobeKeypoints,   \* Mesh.earlobeKeypoints: <<left, right>>
    chokerOffsets,      \* Mesh.chokerOffsets
    necklaceOffsets,    \* Mesh.necklaceOffsets
    leftEarlobeOffsets, \* Mesh.leftEarlobeOffsets
    rightEarlobeOffsets, \* Mesh.rightEarlobeOffsets
    looks,              \* per anchor: size, scale, rotation and asset of the Keypoint
    nextId,             \* identity given to the next Keypoint object created
    env,                \* which callers use this Mesh (fixed for a session)
    last,               \* the last call made on the Mesh: its argument, result, error
    firstLen,           \* per collection: point count of its first non-empty ingestion
    lastGood,           \* per anchor: its position after its last successful computation
    tick,               \* progress of the scenario "good choker read, empty tick, read"
    repeated,           \* the last call read the anchor the call before it read
    detector,           \* per detector: whether this.detector holds the loaded model
    intervalId,         \* per runnable: this.intervalId (0 for null)
    timers,             \* the interval timers the browser holds: <<owner, id>>
    pending,            \* per detector: the estimates awaited, each the id of its timer
    events,             \* per event target: how many events of each name it dispatched
    display,            \* MeshRenderer.displayBody ... displayNecklace
    scene,              \* identities of the Keypoints whose visual is in the Scene
    count,              \* per runnable: start() calls that returned, timer callbacks begun
    completed,          \* per collection: its Keypoints after the last ingestion that returned
    step                \* the last step of a detector, a renderer or a Keypoint's caller

vars == <<bodyKeypoints, faceKeypoints, handKeypoints, chokerKeypoint,
          necklaceKeypoint, earlobeKeypoints, chokerOffsets, necklaceOffsets,
          leftEarlobeOffsets, rightEarlobeOffsets, looks,
          nextId, env, last, firstLen, lastGood, tick, repeated,
          detector, intervalId, timers, pending, events, display, scene, count,
          completed, step>>

----------------------------------------------------------------------------
(* Bounds and number representation                                        *)

Unit == 2 * 2 * 3 * 3 * 5

Num(n) == n * Unit

\* JavaScript's a / b, exact on the values the model reaches.
Div(a, b) == a \div b

Abs(a) == IF a < 0 THEN -a ELSE a

\* JavaScript's a / b for two represented numbers, exact on the values the
\* model reaches.
Quotient(a, b) == (a * Unit) \div b

\* A scale factor n / d, kept as a fraction: it is only ever multiplied with
\* a size.
Fraction(n, d) == [n |-> n, d |-> d]

One == Fraction(1, 1)

Times(a, f) == Div(a * f.n, f.d)

\* Longest body frame a provider delivers in the model (MoveNet delivers 17).
MaxBodyLen == 7

\* Longest face frame a provider delivers in the model: long enough to hold
\* every face index the code names (MediaPipe FaceMesh delivers 468).
MaxFaceLen == 455

\* Most points of one hand in the model (MediaPipe Hands delivers 21).
MaxHandLen == 2

----------------------------------------------------------------------------
(* Keypoint (value object)                                                 *)

\* Keypoint.defaultSize: width and height of a Keypoint that shows no asset.
defaultSize == 5

\* The label a Keypoint holds after setLabel(undefined).
undefined == "<undefined>"

\* new Keypoint(x, y, z, confidence, label); id is the new object's identity.
Keypoint(id, x, y, z, confidence, label) ==
    [id |-> id, x |-> x, y |-> y, z |-> z, confidence |-> confidence, label |-> label]

setConfidence(kp, confidence) == [kp EXCEPT !.confidence = confidence]

setPosition(kp, x, y, z) == [kp EXCEPT !.x = x, !.y = y, !.z = z]

\* What the derivations read and write of an anchor Keypoint besides position,
\* confidence and label: width, height, mesh.scale, mesh.rotation (held as the
\* degrees handed to setRotationY / setRotationZ), the asset's size (0 for
\* null) and whether mesh.material shows an asset.  Raw Keypoints keep the
\* look a new Keypoint has.
Look(size) ==
    [width |-> size, height |-> size, scaleX |-> One, scaleY |-> One,
     rotationY |-> 0, rotationZ |-> 0, assetWidth |-> 0, assetHeight |-> 0,
     displaying |-> FALSE]

\* getWidth() / getHeight(): this.width * this.mesh.scale.x, and likewise y.
getWidth(look) == Times(look.width, look.scaleX)

getHeight(look) == Times(look.height, look.scaleY)

\* The load callback of display2DAsset for an image of width by height pixels.
display2DAsset(look, width, height) ==
    [look EXCEPT !.assetHeight = Num(height), !.assetWidth = Num(width),
                 !.height = Num(height), !.width = Num(width),
                 !.displaying = TRUE]

setScale(look, x, y) == [look EXCEPT !.scaleX = x, !.scaleY = y]

\* A raw point of a provider: raw.has is the set of own properties it carries.
\* copyRawKeypoint takes score, name, x, y, z when present, else 1, "", 0, 0, 0.
copyRawKeypoint(kp, raw) ==
    [kp EXCEPT
        !.confidence = IF "score" \in raw.has THEN raw.score ELSE Num(1),
        !.label      = IF "name" \in raw.has THEN raw.name ELSE "",
        !.x          = IF "x" \in raw.has THEN raw.x ELSE 0,
        !.y          = IF "y" \in raw.has THEN raw.y ELSE 0,
        !.z          = IF "z" \in raw.has THEN raw.z ELSE 0]

Position(kp) == <<kp.x, kp.y, kp.z>>

Origin == <<0, 0, 0>>

----------------------------------------------------------------------------
(* Frames handed to the Mesh                                               *)
(*                                                                         *)
(* A frame is named by a descriptor d = [kind, len, pose, names, hands]:   *)
(*   kind  "null" (no object), "nokeypoints" (object without keypoints),   *)
(*         "empty" (keypoints of length 0), "frame"                        *)
(*   len   number of points (per hand, for a hand frame)                   *)
(*   pose  which of the poses below the coordinates come from              *)
(*   names "provider": the names the provider gives; "none": no names;     *)
(*         "detector": the provider's frame after the detector relabelled  *)
(*         it; "semantic": a face provider that names the face edges       *)
(*         itself                                                          *)
(*   hands number of hands (hand frames)                                   *)

Descriptor(kind, len, pose, names, hands) ==
    [kind |-> kind, len |-> len, pose |-> pose, names |-> names, hands |-> hands]

NoArg == Descriptor("none", 0, 0, "none", 0)

RawPoint(x, y, z, score, name, has) ==
    [x |-> Num(x), y |-> Num(y), z |-> Num(z), score |-> score, name |-> name, has |-> has]

\* Names of the body provider (MoveNet), in index order.
BodyNames ==
    <<"nose", "left_eye", "right_eye", "left_ear", "right_ear",
      "left_shoulder", "right_shoulder", "left_elbow", "right_elbow",
      "left_wrist", "right_wrist", "left_hip", "right_hip",
      "left_knee", "right_knee", "left_ankle", "right_ankle">>

\* Pose 1: a 2D provider (no z).  Pose 2: a 3D provider (z present).
BodyXYZ(pose, i) ==
    IF pose = 1
    THEN CASE i = 1 -> <<100, 50, 0>>
           [] i = 2 -> <<105, 45, 0>>
           [] i = 3 -> <<95, 45, 0>>
           [] i = 4 -> <<112, 48, 0>>
           [] i = 5 -> <<88, 48, 0>>
           [] i = 6 -> <<60, 80, 0>>
           [] i = 7 -> <<140, 80, 0>>
           [] OTHER -> <<10 * i, 20 * i, 0>>
    ELSE CASE i = 1 -> <<103, 47, 30>>
           [] i = 2 -> <<108, 41, 24>>
           [] i = 3 -> <<97, 43, 24>>
           [] i = 4 -> <<115, 46, 8>>
           [] i = 5 -> <<86, 49, 10>>
           [] i = 6 -> <<61, 83, 6>>
           [] i = 7 -> <<139, 86, 12>>
           [] OTHER -> <<11 * i, 21 * i, i>>

\* Score of body point i: 0.5 in pose 1; 0.2, 0.4, 0.6 or 0.8 in pose 2.
BodyScore(pose, i) == IF pose = 1 THEN Div(Num(1), 2) ELSE Div(Num((i % 4) + 1), 5)

BodyPoint(d, i) ==
    LET p == BodyXYZ(d.pose, i)
    IN RawPoint(p[1], p[2], p[3], BodyScore(d.pose, i),
                IF d.names = "provider" THEN BodyNames[i] ELSE "",
                {"x", "y", "score"}
                    \cup (IF d.pose = 2 THEN {"z"} ELSE {})
                    \cup (IF d.names = "provider" THEN {"name"} ELSE {}))

RawFrame(d, points) ==
    [isNull       |-> d.kind = "null",
     hasKeypoints |-> d.kind \in {"empty", "frame"},
     keypoints    |-> IF d.kind = "frame" THEN points ELSE <<>>]

BodyFrame(d) == RawFrame(d, [i \in 1..d.len |-> BodyPoint(d, i)])

\* Shortest face frame of the model: a provider that delivers fewer points
\* than the code's face indices reach.
MinFaceLen == 3

\* Coordinates of the face point at JavaScript index j.
\* Pose 1: head frontal.  Pose 2: head rotated left, chin lowered.
\* Pose 3: the right edge of the face exactly 40 behind the left edge.
\* Pose 4: head rotated right (the left edge 45 behind the right edge).
FaceXYZ(pose, j) ==
    LET frontal ==
            CASE j = 10  -> <<100, 10, 0>>
              [] j = 152 -> <<100, 80, 0>>
              [] j = 164 -> <<100, 60, 0>>
              [] j = 234 -> <<70, 50, 0>>
              [] j = 454 -> <<130, 50, 0>>
              [] j = 93  -> <<72, 55, 2>>
              [] j = 132 -> <<74, 65, 2>>
              [] j = 137 -> <<71, 58, 2>>
              [] j = 177 -> <<75, 68, 2>>
              [] j = 323 -> <<128, 55, 2>>
              [] j = 361 -> <<126, 65, 2>>
              [] j = 366 -> <<129, 58, 2>>
              [] j = 401 -> <<125, 68, 2>>
              [] OTHER   -> <<70 + (j % 60), 10 + (j % 70), j % 7>>
    IN CASE pose = 1 -> frontal
         [] pose = 3 -> CASE j = 234 -> <<72, 50, 45>>
                          [] j = 454 -> <<128, 50, 5>>
                          [] OTHER   -> frontal
         [] pose = 4 -> CASE j = 234 -> <<74, 50, 5>>
                          [] j = 454 -> <<126, 50, 50>>
                          [] OTHER   -> frontal
         [] OTHER    -> CASE j = 152 -> <<98, 95, 4>>
                          [] j = 234 -> <<76, 52, 50>>
                          [] j = 454 -> <<124, 51, 5>>
                          [] OTHER   -> <<frontal[1] + 3, frontal[2] + 1, frontal[3] + 1>>

\* The face provider (MediaPipe FaceMesh) names only some of its points.
FaceProviderNames(j) ==
    CASE j = 0  -> <<"lips">>
      [] j = 10 -> <<"faceOval">>
      [] OTHER  -> <<>>

FaceProviderPoint(d, j) ==
    LET p == FaceXYZ(d.pose, j)
        n == IF d.names = "none" THEN <<>> ELSE FaceProviderNames(j)
    IN RawPoint(p[1], p[2], p[3], 0, IF n = <<>> THEN "" ELSE n[1],
                {"x", "y", "z"} \cup (IF n = <<>> THEN {} ELSE {"name"}))

\* A face provider that names the edges of the face itself delivers these
\* points, in this order; each has the coordinates FaceXYZ gives the index.
SemanticFaceNames ==
    <<"left_edge_face", "right_edge_face", "top_edge_face", "bottom_edge_face", "lips">>

SemanticFaceIndex == <<454, 234, 10, 152, 0>>

SemanticFacePoint(d, i) ==
    LET p == FaceXYZ(d.pose, SemanticFaceIndex[i])
    IN RawPoint(p[1], p[2], p[3], 0, SemanticFaceNames[i], {"x", "y", "z", "name"})

\* Variant: the names of the two side edges of the face are exchanged.
relabelKeypoint_Swapped(index, rawKeypoint) ==
    LET name == IF "name" \in rawKeypoint.has THEN rawKeypoint.name ELSE undefined
    IN [rawKeypoint EXCEPT
            !.name = CASE index = 10  -> "top_edge_face"
                       [] index = 152 -> "bottom_edge_face"
                       [] index = 164 -> "midpoint_between_nose_and_mouth"
                       [] index = 234 -> "left_edge_face"
                       [] index = 454 -> "right_edge_face"
                       [] OTHER       -> name,
            !.has  = rawKeypoint.has \cup {"name"}]

\* FaceDetector.relabelKeypoint(index, rawKeypoint): the raw point afterwards.
\* Assigning rawKeypoint.name always creates the property, with the value
\* undefined when the provider named nothing and the index is not special.
relabelKeypoint(index, rawKeypoint) ==
    LET name == IF "name" \in rawKeypoint.has THEN rawKeypoint.name ELSE undefined
    IN [rawKeypoint EXCEPT
            !.name = CASE index = 10  -> "top_edge_face"
                       [] index = 152 -> "bottom_edge_face"
                       [] index = 164 -> "midpoint_between_nose_and_mouth"
                       [] index = 234 -> "right_edge_face"
                       [] index = 454 -> "left_edge_face"
                       [] OTHER       -> name,
            !.has  = rawKeypoint.has \cup {"name"}]

\* A face provider whose names repeat, name a body part, and name an anchor.
RepeatingFaceNames == <<"lips", "nose", "lips", "necklace", "nose">>

RepeatingFacePoint(d, i) ==
    LET p == FaceXYZ(d.pose, i - 1)
    IN RawPoint(p[1], p[2], p[3], 0, RepeatingFaceNames[i], {"x", "y", "z", "name"})

FacePoint(d, i) ==
    CASE d.names = "detector"  -> relabelKeypoint(i - 1, FaceProviderPoint(d, i - 1))
      [] d.names = "semantic"  -> SemanticFacePoint(d, i)
      [] d.names = "repeating" -> RepeatingFacePoint(d, i)
      [] OTHER                 -> FaceProviderPoint(d, i - 1)

FaceFrame(d) == RawFrame(d, [i \in 1..d.len |-> FacePoint(d, i)])

\* Names of the hand provider (MediaPipe Hands), in index order.
HandNames ==
    <<"wrist", "thumb_cmc", "thumb_mcp", "thumb_ip", "thumb_tip",
      "index_finger_mcp", "index_finger_pip", "index_finger_dip", "index_finger_tip">>

Handedness(h) == IF h = 1 THEN "Left" ELSE "Right"

\* Hand points carry x, y and name, and no score.
HandPoint(d, h, i) ==
    RawPoint(200 * h + 10 * i + d.pose, 150 + 5 * i + d.pose, 0, 0, HandNames[i],
             {"x", "y", "name"})

\* rawHand.handedness.toLowerCase()
toLowerCase(handedness) == IF handedness = "Left" THEN "left" ELSE "right"

\* HandDetector.relabelKeypoint(rawHand, rawKeypoint): the raw point afterwards.
relabelHandKeypoint(rawHand, rawKeypoint) ==
    [rawKeypoint EXCEPT
        !.name = toLowerCase(rawHand.handedness) \o "_" \o
                     (IF "name" \in rawKeypoint.has THEN rawKeypoint.name ELSE "undefined"),
        !.has  = rawKeypoint.has \cup {"name"}]

\* HandDetector.start: every point of every hand is relabelled before the
\* hands reach the Mesh.
relabelHands(hands) ==
    [h \in 1..Len(hands) |->
        [hands[h] EXCEPT
            !.keypoints = [i \in 1..Len(hands[h].keypoints) |->
                              relabelHandKeypoint(hands[h], hands[h].keypoints[i])]]]

\* rawHands: null, or a sequence of hands [handedness, keypoints].
HandFrame(d) ==
    LET provided == [h \in 1..d.hands |->
                        [handedness |-> Handedness(h),
                         keypoints  |-> [i \in 1..d.len |-> HandPoint(d, h, i)]]]
    IN [isNull |-> d.kind = "null",
        hands  |-> CASE d.kind # "frame"     -> <<>>
                     [] d.names = "detector" -> relabelHands(provided)
                     [] OTHER                -> provided]

----------------------------------------------------------------------------
(* Mesh: ingestion                                                         *)

NoError == "none"

\* keypoint.copyRawKeypoint(...) on this.xKeypoints[i] === undefined.
TypeError == "TypeError"

\* Variant: an ingestion without a detection leaves the collection as it is.
ZeroConfidences_None(keypoints) == keypoints

\* Variant: an ingestion without a detection puts a placeholder Keypoint into
\* an empty collection.
ZeroConfidences_Placeholder(keypoints) ==
    IF keypoints = <<>> THEN <<Keypoint(0, 0, 0, 0, 0, "")>>
    ELSE [i \in 1..Len(keypoints) |-> setConfidence(keypoints[i], 0)]

\* for (...) this.xKeypoints[i].setConfidence(0)
ZeroConfidences(keypoints) ==
    [i \in 1..Len(keypoints) |-> setConfidence(keypoints[i], 0)]

\* n times: new Keypoint(0, 0, 0, 0, ""), pushed in order; id is the first identity.
NewKeypoints(n, id) == [i \in 1..n |-> Keypoint(id + i - 1, 0, 0, 0, 0, "")]

\* Variant: the copy loop is left after its first Keypoint.
CopyAll_First(keypoints, raw) ==
    [keypoints |-> [i \in 1..Len(keypoints) |->
                        IF i = 1 /\ i <= Len(raw) THEN copyRawKeypoint(keypoints[i], raw[i])
                        ELSE keypoints[i]],
     err       |-> NoError]

\* for (i < raw.length) this.xKeypoints[i].copyRawKeypoint(raw[i]): the loop
\* stops with a TypeError at the first index the collection does not hold.
CopyAll(keypoints, raw) ==
    [keypoints |-> [i \in 1..Len(keypoints) |->
                        IF i <= Len(raw) THEN copyRawKeypoint(keypoints[i], raw[i])
                        ELSE keypoints[i]],
     err       |-> IF Len(raw) > Len(keypoints) THEN TypeError ELSE NoError]

\* Variant: the body collection is rebuilt whenever the frame's length differs
\* from the collection's.
updateBodyKeypoints_Resize(keypoints, rawBody, id) ==
    IF rawBody.isNull \/ ~rawBody.hasKeypoints \/ Len(rawBody.keypoints) = 0
    THEN [keypoints |-> ZeroConfidences(keypoints), nextId |-> id, err |-> NoError]
    ELSE LET first == Len(keypoints) # Len(rawBody.keypoints)
             held  == IF first THEN NewKeypoints(Len(rawBody.keypoints), id) ELSE keypoints
             done  == CopyAll(held, rawBody.keypoints)
         IN [keypoints |-> done.keypoints,
             nextId    |-> IF first THEN id + Len(rawBody.keypoints) ELSE id,
             err       |-> done.err]

\* Variant: the body collection is rebuilt from new objects on every frame;
\* the identities of the replaced objects are used again.
updateBodyKeypoints_Recreate(keypoints, rawBody, id) ==
    IF rawBody.isNull \/ ~rawBody.hasKeypoints \/ Len(rawBody.keypoints) = 0
    THEN [keypoints |-> ZeroConfidences(keypoints), nextId |-> id, err |-> NoError]
    ELSE LET n    == Len(rawBody.keypoints)
             base == IF Len(keypoints) = 0 \/ keypoints[1].id + n >= id
                     THEN id ELSE keypoints[1].id + n
             done == CopyAll(NewKeypoints(n, base), rawBody.keypoints)
         IN [keypoints |-> done.keypoints,
             nextId    |-> IF base = id THEN id + n ELSE id,
             err       |-> done.err]

\* Mesh.updateBodyKeypoints(rawBody): the collection, the next free identity
\* and the error thrown, if any.
updateBodyKeypoints(keypoints, rawBody, id) ==
    IF rawBody.isNull \/ ~rawBody.hasKeypoints \/ Len(rawBody.keypoints) = 0
    THEN [keypoints |-> ZeroConfidences(keypoints), nextId |-> id, err |-> NoError]
    ELSE LET first == Len(keypoints) = 0
             held  == IF first THEN NewKeypoints(Len(rawBody.keypoints), id) ELSE keypoints
             done  == CopyAll(held, rawBody.keypoints)
         IN [keypoints |-> done.keypoints,
             nextId    |-> IF first THEN id + Len(rawBody.keypoints) ELSE id,
             err       |-> done.err]

\* Mesh.updateFaceKeypoints(rawFace).
updateFaceKeypoints(keypoints, rawFace, id) ==
    IF rawFace.isNull \/ ~rawFace.hasKeypoints \/ Len(rawFace.keypoints) = 0
    THEN [keypoints |-> ZeroConfidences(keypoints), nextId |-> id, err |-> NoError]
    ELSE LET first == Len(keypoints) = 0
             held  == IF first THEN NewKeypoints(Len(rawFace.keypoints), id) ELSE keypoints
             done  == CopyAll(held, rawFace.keypoints)
         IN [keypoints |-> done.keypoints,
             nextId    |-> IF first THEN id + Len(rawFace.keypoints) ELSE id,
             err       |-> done.err]

RECURSIVE TotalPoints(_)
TotalPoints(hands) ==
    IF hands = <<>> THEN 0 ELSE Len(Head(hands).keypoints) + TotalPoints(Tail(hands))

\* for (const rawHand of rawHands) for (i < rawHand.keypoints.length)
\*     this.handKeypoints[i].copyRawKeypoint(rawHand.keypoints[i]):
\* every hand is copied to the indices 0 .. its length - 1.
RECURSIVE CopyHands(_, _)
CopyHands(keypoints, hands) ==
    IF hands = <<>> THEN [keypoints |-> keypoints, err |-> NoError]
    ELSE LET done == CopyAll(keypoints, Head(hands).keypoints)
         IN IF done.err # NoError THEN done ELSE CopyHands(done.keypoints, Tail(hands))

\* Mesh.updateHandKeypoints(rawHands).
updateHandKeypoints(keypoints, rawHands, id) ==
    IF rawHands.isNull \/ Len(rawHands.hands) = 0
    THEN [keypoints |-> ZeroConfidences(keypoints), nextId |-> id, err |-> NoError]
    ELSE LET first == Len(keypoints) = 0
             n     == TotalPoints(rawHands.hands)
             held  == IF first THEN NewKeypoints(n, id) ELSE keypoints
             done  == CopyHands(held, rawHands.hands)
         IN [keypoints |-> done.keypoints,
             nextId    |-> IF first THEN id + n ELSE id,
             err       |-> done.err]

----------------------------------------------------------------------------
(* Mesh: lookup and derived anchors                                        *)

NoKeypoint == Keypoint(0, 0, 0, 0, 0, "")

\* Variant: the body Keypoints are scanned before the face Keypoints.
ScanByLabel_BodyFirst(face, body, label) ==
    LET f == {i \in 1..Len(face) : face[i].label = label}
        b == {i \in 1..Len(body) : body[i].label = label}
        lowest(S) == CHOOSE i \in S : \A k \in S : i <= k
    IN IF b # {} THEN [found |-> TRUE, from |-> "body", kp |-> body[lowest(b)]]
       ELSE IF f # {} THEN [found |-> TRUE, from |-> "face", kp |-> face[lowest(f)]]
       ELSE [found |-> FALSE, from |-> "none", kp |-> NoKeypoint]

\* The scans of getKeypointByLabel: the first face Keypoint with the label,
\* else the first body Keypoint with it, else null.
ScanByLabel(face, body, label) ==
    LET f == {i \in 1..Len(face) : face[i].label = label}
        b == {i \in 1..Len(body) : body[i].label = label}
        lowest(S) == CHOOSE i \in S : \A k \in S : i <= k
    IN IF f # {} THEN [found |-> TRUE, from |-> "face", kp |-> face[lowest(f)]]
       ELSE IF b # {} THEN [found |-> TRUE, from |-> "body", kp |-> body[lowest(b)]]
       ELSE [found |-> FALSE, from |-> "none", kp |-> NoKeypoint]

\* this.faceKeypoints?.[j]
FaceAt(face, j) ==
    IF j + 1 <= Len(face) THEN [found |-> TRUE, from |-> "face", kp |-> face[j + 1]]
    ELSE [found |-> FALSE, from |-> "none", kp |-> NoKeypoint]

\* Variant: the offsets are not applied.
addOffsets_None(position, offsets) == position

\* Offsets are added once, as the last step of a derivation.
addOffsets(position, offsets) ==
    <<position[1] + offsets[1], position[2] + offsets[2], position[3] + offsets[3]>>

NecklaceLabels ==
    {"left_edge_face", "right_edge_face", "left_shoulder", "right_shoulder",
     "bottom_edge_face"}

\* Variant: the necklace sits at the midpoint of the shoulders.
necklacePosition_Midpoint(leftShoulder, rightShoulder, bottomEdgeFace) ==
    <<Div(leftShoulder.x + rightShoulder.x, 2),
      Div(leftShoulder.y + rightShoulder.y, 2),
      Div(leftShoulder.z + rightShoulder.z, 2)>>

\* Position of the necklace from its dependencies.
necklacePosition(leftShoulder, rightShoulder, bottomEdgeFace) ==
    LET x  == Div(leftShoulder.x + rightShoulder.x, 2)
        y0 == Div(leftShoulder.y + rightShoulder.y, 2)
        y  == y0 + Div(bottomEdgeFace.y - y0, 3)
        z  == Div(leftShoulder.z + rightShoulder.z, 2)
    IN <<x, y, z>>

\* Variant: the scale is taken relative to the width the anchor is shown at.
assetScale_Relative(look, target) ==
    LET height == Quotient(target, Quotient(look.assetWidth, look.assetHeight))
    IN setScale(look, Fraction(target, getWidth(look)),
                      Fraction(height, getHeight(look)))

\* The scale a derivation gives an anchor that shows an asset: the asset is
\* shown target wide and keeps its aspect ratio.
assetScale(look, target) ==
    LET height == Quotient(target, Quotient(look.assetWidth, look.assetHeight))
    IN setScale(look, Fraction(target, look.assetWidth),
                Fraction(height, look.assetHeight))

\* Mesh.getNecklaceKeypoint(): scale and rotation of the necklace afterwards.
getNecklaceLook(look, face, body) ==
    LET leftEdgeFace   == ScanByLabel(face, body, "left_edge_face")
        rightEdgeFace  == ScanByLabel(face, body, "right_edge_face")
        leftShoulder   == ScanByLabel(face, body, "left_shoulder")
        rightShoulder  == ScanByLabel(face, body, "right_shoulder")
        bottomEdgeFace == ScanByLabel(face, body, "bottom_edge_face")
    IN IF ~leftEdgeFace.found \/ ~rightEdgeFace.found \/ ~leftShoulder.found
            \/ ~rightShoulder.found \/ ~bottomEdgeFace.found
       THEN look
       ELSE LET scaled ==
                    IF look.displaying
                    THEN assetScale(look,
                                    Div(Abs(leftShoulder.kp.x - rightShoulder.kp.x), 2))
                    ELSE look
                rotationY == Div(rightEdgeFace.kp.z - leftEdgeFace.kp.z, 3)
                rotationZ == Div(rightShoulder.kp.y - leftShoulder.kp.y, 5)
            IN [scaled EXCEPT !.rotationY = -rotationY, !.rotationZ = rotationZ]

\* Variant: the necklace takes the confidence of a dependency.
getNecklaceKeypoint_Score(necklace, face, body, offsets) ==
    LET zeroed         == setConfidence(necklace, 0)
        leftEdgeFace   == ScanByLabel(face, body, "left_edge_face")
        rightEdgeFace  == ScanByLabel(face, body, "right_edge_face")
        leftShoulder   == ScanByLabel(face, body, "left_shoulder")
        rightShoulder  == ScanByLabel(face, body, "right_shoulder")
        bottomEdgeFace == ScanByLabel(face, body, "bottom_edge_face")
    IN IF ~leftEdgeFace.found \/ ~rightEdgeFace.found \/ ~leftShoulder.found
            \/ ~rightShoulder.found \/ ~bottomEdgeFace.found
       THEN zeroed
       ELSE LET p == addOffsets(
                        necklacePosition(leftShoulder.kp, rightShoulder.kp,
                                         bottomEdgeFace.kp),
                        offsets)
            IN setPosition(setConfidence(zeroed, leftShoulder.kp.confidence),
                           p[1], p[2], p[3])

\* Variant: a necklace that cannot be computed goes back to the origin.
getNecklaceKeypoint_Reset(necklace, face, body, offsets) ==
    LET zeroed         == setConfidence(necklace, 0)
        leftEdgeFace   == ScanByLabel(face, body, "left_edge_face")
        rightEdgeFace  == ScanByLabel(face, body, "right_edge_face")
        leftShoulder   == ScanByLabel(face, body, "left_shoulder")
        rightShoulder  == ScanByLabel(face, body, "right_shoulder")
        bottomEdgeFace == ScanByLabel(face, body, "bottom_edge_face")
    IN IF ~leftEdgeFace.found \/ ~rightEdgeFace.found \/ ~leftShoulder.found
            \/ ~rightShoulder.found \/ ~bottomEdgeFace.found
       THEN setPosition(zeroed, 0, 0, 0)
       ELSE LET p == addOffsets(
                        necklacePosition(leftShoulder.kp, rightShoulder.kp,
                                         bottomEdgeFace.kp),
                        offsets)
            IN setPosition(setConfidence(zeroed, Num(1)), p[1], p[2], p[3])

\* Mesh.getNecklaceKeypoint(): the necklace Keypoint afterwards.
getNecklaceKeypoint(necklace, face, body, offsets) ==
    LET zeroed         == setConfidence(necklace, 0)
        leftEdgeFace   == ScanByLabel(face, body, "left_edge_face")
        rightEdgeFace  == ScanByLabel(face, body, "right_edge_face")
        leftShoulder   == ScanByLabel(face, body, "left_shoulder")
        rightShoulder  == ScanByLabel(face, body, "right_shoulder")
        bottomEdgeFace == ScanByLabel(face, body, "bottom_edge_face")
    IN IF ~leftEdgeFace.found \/ ~rightEdgeFace.found \/ ~leftShoulder.found
            \/ ~rightShoulder.found \/ ~bottomEdgeFace.found
       THEN zeroed
       ELSE LET p == addOffsets(
                        necklacePosition(leftShoulder.kp, rightShoulder.kp,
                                         bottomEdgeFace.kp),
                        offsets)
            IN setPosition(setConfidence(zeroed, Num(1)), p[1], p[2], p[3])

\* Variant: the choker sits halfway between the necklace and the nose.
chokerPosition_Half(nose, necklace) ==
    LET x == necklace.x + Div(nose.x - necklace.x, 2)
        y == necklace.y + Div(nose.y - necklace.y, 2)
        z == necklace.z + Div(nose.z + necklace.z, 2)
    IN <<x, y, z>>

\* Position of the choker from the nose and the necklace Keypoint.
chokerPosition(nose, necklace) ==
    LET x == necklace.x + Div(nose.x - necklace.x, 3)
        y == necklace.y + Div(nose.y - necklace.y, 3)
        z == necklace.z + Div(nose.z + necklace.z, 2)
    IN <<x, y, z>>

\* Whether getKeypointByLabel("necklace") == null: it returns the persistent
\* necklace Keypoint, which is never null.
necklaceIsNull(necklace) == FALSE

\* Variant: getChokerKeypoint returns null when the choker cannot be computed.
getChokerKeypoint_Null(choker, necklace, face, body, offsets, necklaceOff) ==
    LET zeroed == setConfidence(choker, 0)
        nose   == ScanByLabel(face, body, "nose")
    IN IF ~nose.found
       THEN [choker |-> zeroed, necklace |-> necklace, ret |-> <<>>]
       ELSE LET read == getNecklaceKeypoint(necklace, face, body, necklaceOff)
                p    == addOffsets(chokerPosition(nose.kp, read), offsets)
            IN [choker   |-> setPosition(setConfidence(zeroed, Num(1)),
                                         p[1], p[2], p[3]),
                necklace |-> read,
                ret      |-> <<zeroed.id>>]

\* Variant: the choker adds the necklace's offsets to its own.
getChokerKeypoint_Twice(choker, necklace, face, body, offsets, necklaceOff) ==
    LET zeroed == setConfidence(choker, 0)
        nose   == ScanByLabel(face, body, "nose")
    IN IF ~nose.found
       THEN [choker |-> zeroed, necklace |-> necklace, ret |-> <<zeroed.id>>]
       ELSE LET read == getNecklaceKeypoint(necklace, face, body, necklaceOff)
                p    == addOffsets(addOffsets(chokerPosition(nose.kp, read), offsets),
                                   necklaceOff)
            IN [choker   |-> setPosition(setConfidence(zeroed, Num(1)), p[1], p[2], p[3]),
                necklace |-> read,
                ret      |-> <<zeroed.id>>]

\* Mesh.getChokerKeypoint(): the choker and the necklace Keypoint afterwards
\* (the necklace is read through getKeypointByLabel("necklace")), and ret, the
\* identity of the object returned.
getChokerKeypoint(choker, necklace, face, body, offsets, necklaceOff) ==
    LET zeroed == setConfidence(choker, 0)
        nose   == ScanByLabel(face, body, "nose")
    IN IF ~nose.found
       THEN [choker |-> zeroed, necklace |-> necklace, ret |-> <<zeroed.id>>]
       ELSE LET read == getNecklaceKeypoint(necklace, face, body, necklaceOff)
            IN IF necklaceIsNull(read)
               THEN [choker |-> zeroed, necklace |-> read, ret |-> <<zeroed.id>>]
               ELSE LET p == addOffsets(chokerPosition(nose.kp, read), offsets)
                    IN [choker   |-> setPosition(setConfidence(zeroed, Num(1)),
                                                 p[1], p[2], p[3]),
                        necklace |-> read,
                        ret      |-> <<zeroed.id>>]

EarlobeLabels ==
    {"left_ear", "right_ear", "left_edge_face", "right_edge_face",
     "top_edge_face", "bottom_edge_face", "left_shoulder", "right_shoulder"}

EarlobeIndices == {93, 132, 137, 177, 323, 361, 366, 401}

\* Mesh.getEarlobeKeypoints(): the looks <<left, right>> afterwards (an
\* earlobe that shows an asset is scaled to 1/25 of the shoulders' distance).
getEarlobeLooks(earlobeLooks, face, body) ==
    LET leftShoulder  == ScanByLabel(face, body, "left_shoulder")
        rightShoulder == ScanByLabel(face, body, "right_shoulder")
        scaled(look) ==
            IF look.displaying
            THEN assetScale(look, Div(Abs(leftShoulder.kp.x - rightShoulder.kp.x), 25))
            ELSE look
    IN IF (\E l \in EarlobeLabels : ~ScanByLabel(face, body, l).found)
            \/ \E j \in EarlobeIndices : ~FaceAt(face, j).found
       THEN earlobeLooks
       ELSE <<scaled(earlobeLooks[1]), scaled(earlobeLooks[2])>>

\* Variant: a depth difference of 40 already counts as a rotation.
isRotatedLeft_AtLeast(leftEdgeFace, rightEdgeFace) ==
    (rightEdgeFace.z - leftEdgeFace.z) >= Num(40)

\* The head is rotated so far that the right (the left) earlobe is hidden.
isRotatedLeft(leftEdgeFace, rightEdgeFace) ==
    (rightEdgeFace.z - leftEdgeFace.z) > Num(40)

\* Variant: a rotation to either side counts as a rotation to the right.
isRotatedRight_Either(leftEdgeFace, rightEdgeFace) ==
    Abs(leftEdgeFace.z - rightEdgeFace.z) > Num(40)

isRotatedRight(leftEdgeFace, rightEdgeFace) ==
    (leftEdgeFace.z - rightEdgeFace.z) > Num(40)

\* Mesh.getEarlobeKeypoints(): the pair <<left, right>> afterwards.
getEarlobeKeypoints(earlobes, earlobeLooks, face, body, leftOffsets, rightOffsets) ==
    LET zeroed == <<setConfidence(earlobes[1], 0), setConfidence(earlobes[2], 0)>>
        leftEar        == ScanByLabel(face, body, "left_ear")
        rightEar       == ScanByLabel(face, body, "right_ear")
        leftEdgeFace   == ScanByLabel(face, body, "left_edge_face")
        rightEdgeFace  == ScanByLabel(face, body, "right_edge_face")
        topEdgeFace    == ScanByLabel(face, body, "top_edge_face")
        bottomEdgeFace == ScanByLabel(face, body, "bottom_edge_face")
        leftShoulder   == ScanByLabel(face, body, "left_shoulder")
        rightShoulder  == ScanByLabel(face, body, "right_shoulder")
        k93  == FaceAt(face, 93).kp
        k132 == FaceAt(face, 132).kp
        k137 == FaceAt(face, 137).kp
        k177 == FaceAt(face, 177).kp
        k323 == FaceAt(face, 323).kp
        k361 == FaceAt(face, 361).kp
        k366 == FaceAt(face, 366).kp
        k401 == FaceAt(face, 401).kp
    IN IF ~leftEar.found \/ ~rightEar.found \/ ~leftEdgeFace.found
            \/ ~rightEdgeFace.found \/ ~topEdgeFace.found \/ ~bottomEdgeFace.found
            \/ ~leftShoulder.found \/ ~rightShoulder.found
            \/ \E j \in EarlobeIndices : ~FaceAt(face, j).found
       THEN zeroed
       ELSE LET scaled         == getEarlobeLooks(earlobeLooks, face, body)
                rotatedLeft  == isRotatedLeft(leftEdgeFace.kp, rightEdgeFace.kp)
                rotatedRight == isRotatedRight(leftEdgeFace.kp, rightEdgeFace.kp)
                leftEarlobeX ==
                    Div((k323.x + Abs(k366.x - k323.x))
                            + (k361.x + Abs(k401.x - k361.x)), 2)
                        - Div(getWidth(scaled[1]), 2)
                rightEarlobeX ==
                    Div((k132.x - Abs(k132.x - k177.x))
                            + (k93.x - Abs(k93.x - k137.x)), 2)
                        + Div(getWidth(scaled[2]), 2)
                leftEarlobeY ==
                    Div((k323.y + Abs(k366.y - k323.y))
                            + (k361.y + Abs(k401.y - k361.y)), 2)
                        + Div(getHeight(scaled[1]), 2)
                rightEarlobeY ==
                    Div((k132.y - Abs(k132.y - k177.y))
                            + (k93.y - Abs(k93.y - k137.y)), 2)
                        + Div(getHeight(scaled[2]), 2)
                left  == addOffsets(<<leftEarlobeX, leftEarlobeY, leftEar.kp.z>>,
                                    leftOffsets)
                right == addOffsets(<<rightEarlobeX, rightEarlobeY, rightEar.kp.z>>,
                                    rightOffsets)
            IN <<setPosition(
                    setConfidence(zeroed[1], IF rotatedRight THEN 0 ELSE Num(1)),
                    left[1], left[2], left[3]),
                 setPosition(
                    setConfidence(zeroed[2], IF rotatedLeft THEN 0 ELSE Num(1)),
                    right[1], right[2], right[3])>>

----------------------------------------------------------------------------
(* Runnables: the detectors and renderers, each driven by an interval timer *)
(*                                                                         *)
(* A timer callback of a detector is asynchronous: it runs up to its await *)
(* of the model's estimate, and its remainder runs when the estimate has   *)
(* resolved or rejected.  Estimates of one detector may resolve in any     *)
(* order.  Every other callback and every method runs to completion.       *)

Detectors == {"body", "face", "hand"}

\* The runnables that dispatch events: the detectors and the VideoRenderer.
EventTargets == Detectors \cup {"video"}

\* "mesh" is the MeshRenderer.
Runnables == EventTargets \cup {"mesh"}

EventNames == {"ready", "started", "stopped", "updated"}

NoEvents == [n \in EventNames |-> 0]

\* this.dispatchEvent(new CustomEvent(name))
dispatchEvent(dispatched, name) == [dispatched EXCEPT ![name] = @ + 1]

\* The BodyDetector and the FaceDetector dispatch "ready", "started" and
\* "updated"; the HandDetector dispatches none of the three.
Dispatches(k) == k \in {"body", "face"}

NotInitialized == "Detector not initialized."

AlreadyRunning == "Already running."

\* validateDefined / validateNumber: 'Parameter "object" ...'
InvalidParameter == "Parameter \"object\""

\* RunnableInterval.isRunning()
isRunning(id) == id # 0

\* setInterval(callback, delay) returning id, and clearInterval(id)
setInterval(owner, id, held) == held \cup {<<owner, id>>}

clearInterval(owner, id, held) == held \ {<<owner, id>>}

\* Variant: stop() dispatches "stopped" whether or not the runnable runs.
stop_Always(r, id, held, dispatched) ==
    [intervalId |-> 0, timers |-> clearInterval(r, id, held),
     events |-> dispatchEvent(dispatched, "stopped")]

\* RunnableInterval.stop() of runnable r: its intervalId, the timers and the
\* events it has dispatched afterwards.
stop(r, id, held, dispatched) ==
    IF id # 0
    THEN [intervalId |-> 0, timers |-> clearInterval(r, id, held),
          events |-> dispatchEvent(dispatched, "stopped")]
    ELSE [intervalId |-> id, timers |-> held, events |-> dispatched]

\* Variant: start() on a running detector sets another timer instead of throwing.
start_Restart(k, loaded, id, held, dispatched, fresh) ==
    IF ~loaded
    THEN [err |-> NotInitialized, intervalId |-> id, timers |-> held,
          events |-> dispatched]
    ELSE [err |-> NoError, intervalId |-> fresh,
          timers |-> setInterval(k, fresh, held),
          events |-> IF Dispatches(k) THEN dispatchEvent(dispatched, "started")
                     ELSE dispatched]

\* BodyDetector.start(), FaceDetector.start(), HandDetector.start(): the error
\* thrown, and the detector's intervalId, the timers and the events dispatched
\* afterwards; fresh is the id setInterval returns.
start(k, loaded, id, held, dispatched, fresh) ==
    IF ~loaded
    THEN [err |-> NotInitialized, intervalId |-> id, timers |-> held,
          events |-> dispatched]
    ELSE IF id # 0
    THEN [err |-> AlreadyRunning, intervalId |-> id, timers |-> held,
          events |-> dispatched]
    ELSE [err |-> NoError, intervalId |-> fresh,
          timers |-> setInterval(k, fresh, held),
          events |-> IF Dispatches(k) THEN dispatchEvent(dispatched, "started")
                     ELSE dispatched]

\* VideoRenderer.start()
startVideoRenderer(id, held, fresh) ==
    IF id # 0
    THEN [err |-> AlreadyRunning, intervalId |-> id, timers |-> held]
    ELSE [err |-> NoError, intervalId |-> fresh,
          timers |-> setInterval("video", fresh, held)]

\* MeshRenderer.stop(): no event, the MeshRenderer is no event target.
stopMeshRenderer(id, held) ==
    IF id # 0 THEN [intervalId |-> 0, timers |-> clearInterval("mesh", id, held)]
    ELSE [intervalId |-> id, timers |-> held]

\* MeshRenderer.start(drawsPerSecond, glContext, mesh): a running renderer is
\* stopped first; the callback draws into a new Scene.
startMeshRenderer(id, held, fresh) ==
    LET stopped == stopMeshRenderer(id, held)
    IN [intervalId |-> fresh, timers |-> setInterval("mesh", fresh, stopped.timers)]

\* What the awaited estimate of a detector came to: it rejected ("throws"),
\* resolved to an empty array ("none"), or resolved to an array whose first
\* element is the frame ("found").
Detection(result, frame) == [result |-> result, frame |-> frame]

Threw == Detection("throws", NoArg)

Nothing == Detection("none", NoArg)

Found(d) == Detection("found", d)

\* MeshRenderer.minimumConfidence
minimumConfidence == Div(Num(1), 2)

Categories == {"body", "choker", "earlobes", "face", "necklace"}

\* Variant: a Keypoint is shown only when its confidence exceeds the minimum.
placePoint_Above(sc, keypoint) ==
    IF keypoint.confidence <= minimumConfidence THEN sc \ {keypoint.id}
    ELSE sc \cup {keypoint.id}

\* MeshRenderer.placePoint(scene, keypoint): the scene afterwards.
placePoint(sc, keypoint) ==
    IF keypoint.confidence < minimumConfidence THEN sc \ {keypoint.id}
    ELSE sc \cup {keypoint.id}

\* One loop of the render callback over keypoints, shown being the display
\* flag of their category:
\*     if (shown) this.placePoint(scene, keypoint);
\*     else scene.remove(keypoint.getMesh());
RECURSIVE draw(_, _, _)
draw(sc, keypoints, shown) ==
    IF keypoints = <<>> THEN sc
    ELSE draw(IF shown THEN placePoint(sc, Head(keypoints))
              ELSE sc \ {Head(keypoints).id},
              Tail(keypoints), shown)

\* An argument handed to a setter of a Keypoint: a number, or a value of
\* another type ("string", "undefined", "null").
Value(type, n) == [type |-> type, n |-> n]

\* validateNumber(object): the error thrown, if any.
validateNumber(object) ==
    IF object.type \in {"undefined", "null"} THEN InvalidParameter
    ELSE IF object.type # "number" THEN InvalidParameter
    ELSE NoError

\* Keypoint.setX(x), setY(y), setZ(z): the Keypoint afterwards and the error
\* thrown.
setX(kp, x) ==
    IF validateNumber(x) # NoError THEN [kp |-> kp, err |-> validateNumber(x)]
    ELSE [kp |-> [kp EXCEPT !.x = x.n], err |-> NoError]

setY(kp, y) ==
    IF validateNumber(y) # NoError THEN [kp |-> kp, err |-> validateNumber(y)]
    ELSE [kp |-> [kp EXCEPT !.y = y.n], err |-> NoError]

setZ(kp, z) ==
    IF validateNumber(z) # NoError THEN [kp |-> kp, err |-> validateNumber(z)]
    ELSE [kp |-> [kp EXCEPT !.z = z.n], err |-> NoError]

\* Keypoint.setPosition(x, y, z) with validated arguments:
\* this.setX(x); this.setY(y); this.setZ(z), ending at the first that throws.
setPositionValidated(kp, x, y, z) ==
    LET afterX == setX(kp, x)
        afterY == setY(afterX.kp, y)
        afterZ == setZ(afterY.kp, z)
    IN IF afterX.err # NoError THEN afterX
       ELSE IF afterY.err # NoError THEN afterY
       ELSE afterZ

----------------------------------------------------------------------------
(* Which dependencies resolve in the current state                         *)

Resolves(label) == ScanByLabel(faceKeypoints, bodyKeypoints, label).found

Resolved(label) == ScanByLabel(faceKeypoints, bodyKeypoints, label).kp

NecklaceResolves == \A l \in NecklaceLabels : Resolves(l)

EarlobeLabelsResolve == \A l \in EarlobeLabels : Resolves(l)

EarlobesResolve ==
    EarlobeLabelsResolve /\ \A j \in EarlobeIndices : FaceAt(faceKeypoints, j).found

----------------------------------------------------------------------------
(* Environments: the callers of one Mesh and what they hand to it          *)
(*                                                                         *)
(*   "body"     a body provider whose frames vary in length, pose, names   *)
(*   "face"     the FaceDetector and its provider, frames of either length *)
(*   "hands"    a hand provider, alone or behind the HandDetector,         *)
(*              delivering one or two hands                                *)
(*   "necklace" body and face providers, a reader of the necklace and a    *)
(*              caller that sets its offsets                               *)
(*   "choker"   body and face providers, a reader of the choker and a      *)
(*              caller that sets its offsets                               *)
(*   "earlobes" the FaceDetector on a turning head, a body provider and a  *)
(*              reader of the earlobes                                     *)
(*   "earrings" the FaceDetector, a body provider, a reader of the         *)
(*              earlobes, callers that set their offsets and give the left *)
(*              one a 2D asset                                             *)
(*   "offsets"  body and face providers, readers of necklace and choker,   *)
(*              callers that set the offsets of both and one that gives    *)
(*              the necklace a 2D asset                                    *)
(*   "lookup"   body, face and hand providers whose labels overlap, and a  *)
(*              caller of getKeypointByLabel and of the collection getters *)

Envs ==
    {"body", "face", "hands", "necklace", "choker", "earlobes", "earrings",
     "offsets", "lookup"}

Absent(kinds) == {Descriptor(k, 0, 0, "none", 0) : k \in kinds}

Frame(len, pose, names) == Descriptor("frame", len, pose, names, 0)

Hands(len, pose, hands) == Descriptor("frame", len, pose, "provider", hands)

RelabelledHands(len, pose, hands) == Descriptor("frame", len, pose, "detector", hands)

BodyArgs(e) ==
    CASE e = "body" ->
            Absent({"null", "nokeypoints", "empty"})
                \cup {Frame(MaxBodyLen, 1, "provider"), Frame(MaxBodyLen, 2, "provider"),
                      Frame(MaxBodyLen, 1, "none"), Frame(MaxBodyLen - 2, 2, "provider")}
      [] e = "necklace" ->
            Absent({"null"})
                \cup {Frame(MaxBodyLen, 1, "provider"), Frame(MaxBodyLen, 2, "provider")}
      [] e = "choker" ->
            Absent({"null"})
                \cup {Frame(MaxBodyLen, 1, "provider"), Frame(MaxBodyLen, 2, "provider"),
                      Frame(MaxBodyLen, 1, "none")}
      [] e = "hands" -> {}
      [] OTHER -> {Frame(MaxBodyLen, 1, "provider")}

FaceArgs(e) ==
    CASE e = "face" ->
            Absent({"null", "nokeypoints", "empty"})
                \cup {Frame(MinFaceLen, 1, "detector"), Frame(MaxFaceLen, 1, "detector"),
                      Frame(MaxFaceLen, 1, "provider")}
      [] e = "necklace" ->
            Absent({"null"})
                \cup {Frame(Len(SemanticFaceNames), 1, "semantic"),
                      Frame(Len(SemanticFaceNames), 2, "semantic"),
                      Frame(Len(SemanticFaceNames), 1, "none")}
      [] e = "choker" ->
            Absent({"null"})
                \cup {Frame(Len(SemanticFaceNames), 1, "semantic"),
                      Frame(Len(SemanticFaceNames), 2, "semantic")}
      [] e = "earlobes" ->
            {Frame(MaxFaceLen, 1, "detector"), Frame(MaxFaceLen, 2, "detector"),
             Frame(MaxFaceLen, 3, "detector"), Frame(MaxFaceLen, 4, "detector"),
             Frame(MaxFaceLen, 1, "provider")}
      [] e = "earrings" -> {Frame(MaxFaceLen, 1, "detector")}
      [] e = "lookup" -> {Frame(Len(RepeatingFaceNames), 1, "repeating")}
      [] e = "hands" -> {}
      [] OTHER -> {Frame(Len(SemanticFaceNames), 1, "semantic")}

HandArgs(e) ==
    CASE e = "hands" ->
            Absent({"null", "empty"})
                \cup {Hands(MaxHandLen, 1, 1), Hands(MaxHandLen - 1, 2, 2),
                      Hands(MaxHandLen, 2, 2), RelabelledHands(MaxHandLen, 1, 2),
                      RelabelledHands(MaxHandLen, 2, 1)}
      [] e = "body" -> {Hands(MaxHandLen, 1, 1)}
      [] e = "lookup" -> {Hands(MaxHandLen, 1, 1)}
      [] OTHER -> {}

Reads(e) ==
    CASE e = "necklace" -> {"getNecklaceKeypoint", "getKeypointByLabel"}
      [] e = "choker" -> {"getChokerKeypoint", "getKeypointByLabel"}
      [] e = "earlobes" -> {"getEarlobeKeypoints"}
      [] e = "earrings" -> {"getEarlobeKeypoints"}
      [] e = "offsets" -> {"getNecklaceKeypoint", "getChokerKeypoint"}
      [] e = "lookup" ->
            {"getKeypointByLabel", "getBodyKeypoints", "getFaceKeypoints",
             "getHandKeypoints"}
      [] e = "body" -> {"getBodyKeypoints", "getFaceKeypoints", "getHandKeypoints"}
      [] e = "hands" -> {"getBodyKeypoints", "getFaceKeypoints", "getHandKeypoints"}
      [] OTHER -> {}

LookupLabels(e) ==
    CASE e = "necklace" -> {"necklace", "left_shoulder"}
      [] e = "choker" -> {"choker", "nose", "wrist"}
      [] e = "lookup" ->
            {"choker", "necklace", "left_earlobe", "right_earlobe", "nose", "lips",
             "left_shoulder", "wrist", "ankle"}
      [] OTHER -> {}

OffsetValues == {Origin, <<Num(5), Num(-5), Num(3)>>}

ChokerOffsetArgs(e) == IF e \in {"choker", "offsets"} THEN OffsetValues ELSE {}

NecklaceOffsetArgs(e) == IF e \in {"necklace", "offsets"} THEN OffsetValues ELSE {}

LeftEarlobeOffsetArgs(e) == IF e = "earrings" THEN {<<Num(5), Num(-5), Num(3)>>} ELSE {}

RightEarlobeOffsetArgs(e) == IF e = "earrings" THEN {<<Num(-2), Num(4), Num(1)>>} ELSE {}

\* The anchors that are given a 2D asset, and the pixel sizes of the images.
AssetAnchors(e) ==
    CASE e = "offsets" -> {"necklace"}
      [] e = "earrings" -> {"left_earlobe"}
      [] OTHER -> {}

AssetSizes == {<<200, 100>>}

----------------------------------------------------------------------------
(* State machine                                                           *)

\* A call on the Mesh: held is the number of Keypoints the collection of an
\* ingestion held before the call, ret the identities of the objects returned
\* (<<>> for null or no result), err the error thrown.
Call(op, arg, held, label, ret, err) ==
    [op |-> op, arg |-> arg, held |-> held, label |-> label, ret |-> ret, err |-> err]

Idle == [phase |-> 0, pos |-> Origin]

\* An ingestion d into collection coll follows a successful choker read and
\* reports no detection for the collection that supplies the nose.
TickAfterIngestion(coll, d) ==
    IF tick.phase = 1 /\ d.kind # "frame"
          /\ ScanByLabel(faceKeypoints, bodyKeypoints, "nose").from = coll
    THEN [phase |-> 2, pos |-> tick.pos]
    ELSE Idle

TickAfterChokerRead(resolved, choker) ==
    IF tick.phase = 2 THEN [phase |-> 3, pos |-> tick.pos]
    ELSE IF resolved THEN [phase |-> 1, pos |-> Position(choker)]
    ELSE Idle

\* The anchor whose derivation a call ran: "none" for every other call.
AnchorOf(call) ==
    CASE call.op = "getNecklaceKeypoint" -> "necklace"
      [] call.op = "getChokerKeypoint" -> "choker"
      [] call.op = "getEarlobeKeypoints" -> "earlobes"
      [] call.op = "getKeypointByLabel" ->
            CASE call.label = "necklace" -> "necklace"
              [] call.label = "choker" -> "choker"
              [] call.label \in {"left_earlobe", "right_earlobe"} -> "earlobes"
              [] OTHER -> "none"
      [] OTHER -> "none"

\* The face frames of all environments, built once.
FaceFrames == [d \in UNION {FaceArgs(e) : e \in Envs} |-> FaceFrame(d)]

\* The Mesh after new Mesh().
MeshConstructed ==
    /\ bodyKeypoints = <<>>
    /\ chokerKeypoint = Keypoint(1, 0, 0, 0, 0, "choker")
    /\ earlobeKeypoints = <<Keypoint(2, 0, 0, 0, 0, "left_earlobe"),
                            Keypoint(3, 0, 0, 0, 0, "right_earlobe")>>
    /\ faceKeypoints = <<>>
    /\ handKeypoints = <<>>
    /\ necklaceKeypoint = Keypoint(4, 0, 0, 0, 0, "necklace")
    /\ chokerOffsets = <<0, 0, 0>>
    /\ leftEarlobeOffsets = <<0, 0, 0>>
    /\ necklaceOffsets = <<0, 0, 0>>
    /\ rightEarlobeOffsets = <<0, 0, 0>>
    /\ looks = [choker |-> Look(Num(defaultSize)), necklace |-> Look(Num(defaultSize)),
                left_earlobe |-> Look(Num(defaultSize)),
                right_earlobe |-> Look(Num(defaultSize))]
    /\ nextId = 5
    /\ last = Call("constructor", NoArg, 0, "", <<>>, NoError)
    /\ firstLen = [body |-> 0, face |-> 0, hand |-> 0]
    /\ lastGood = [choker |-> Origin, necklace |-> Origin,
                   left_earlobe |-> Origin, right_earlobe |-> Origin]
    /\ tick = Idle
    /\ repeated = FALSE

sessionVars ==
    <<detector, intervalId, timers, pending, events, display, scene, count,
      completed, step>>

\* A step of a runnable or of a caller of a Keypoint: timer is the id of the
\* timer it concerns, outcome what the awaited estimate came to, ingested
\* whether the Mesh received an ingestion, live whether that timer was still
\* held by the browser, emitted the events dispatched, seen the collections a
\* render callback read, before the position a setter found, numeric whether
\* every argument of the setter was a number.
NoStep ==
    [op |-> "none", who |-> "none", timer |-> 0, outcome |-> Nothing,
     err |-> NoError, ingested |-> FALSE, live |-> TRUE, emitted |-> {},
     seen |-> [body |-> <<>>, face |-> <<>>], before |-> Origin,
     numeric |-> TRUE]

Did(op, who) == [NoStep EXCEPT !.op = op, !.who = who]

\* The detectors and renderers after construction: no model has loaded, no
\* timer runs, every category is displayed.
Constructed ==
    /\ detector = [k \in Detectors |-> FALSE]
    /\ intervalId = [r \in Runnables |-> 0]
    /\ timers = {}
    /\ pending = [k \in Detectors |-> <<>>]
    /\ events = [r \in EventTargets |-> NoEvents]
    /\ display = [c \in Categories |-> TRUE]
    /\ scene = {}
    /\ count = [r \in Runnables |-> [starts |-> 0, ticks |-> 0]]
    /\ completed = [body |-> NoArg, face |-> NoArg, hand |-> NoArg]
    /\ step = NoStep

Init ==
    /\ MeshConstructed
    /\ env \in Envs
    /\ Constructed

offsetVars == <<chokerOffsets, leftEarlobeOffsets, necklaceOffsets, rightEarlobeOffsets>>

anchorVars == <<chokerKeypoint, necklaceKeypoint, earlobeKeypoints, looks>>

collectionVars == <<bodyKeypoints, faceKeypoints, handKeypoints>>

UpdateBodyKeypoints ==
    \E d \in BodyArgs(env) :
        LET r == updateBodyKeypoints(bodyKeypoints, BodyFrame(d), nextId)
        IN /\ bodyKeypoints' = r.keypoints
           /\ nextId' = r.nextId
           /\ last' = Call("updateBodyKeypoints", d, Len(bodyKeypoints), "", <<>>, r.err)
           /\ firstLen' = IF firstLen.body = 0 /\ d.kind = "frame"
                          THEN [firstLen EXCEPT !.body = d.len] ELSE firstLen
           /\ tick' = TickAfterIngestion("body", d)
           /\ repeated' = FALSE
           /\ UNCHANGED <<faceKeypoints, handKeypoints, anchorVars, offsetVars,
                          env, sessionVars, lastGood>>

UpdateFaceKeypoints ==
    \E d \in FaceArgs(env) :
        LET r == updateFaceKeypoints(faceKeypoints, FaceFrames[d], nextId)
        IN /\ faceKeypoints' = r.keypoints
           /\ nextId' = r.nextId
           /\ last' = Call("updateFaceKeypoints", d, Len(faceKeypoints), "", <<>>, r.err)
           /\ firstLen' = IF firstLen.face = 0 /\ d.kind = "frame"
                          THEN [firstLen EXCEPT !.face = d.len] ELSE firstLen
           /\ tick' = TickAfterIngestion("face", d)
           /\ repeated' = FALSE
           /\ UNCHANGED <<bodyKeypoints, handKeypoints, anchorVars, offsetVars,
                          env, sessionVars, lastGood>>

UpdateHandKeypoints ==
    \E d \in HandArgs(env) :
        LET r == updateHandKeypoints(handKeypoints, HandFrame(d), nextId)
        IN /\ handKeypoints' = r.keypoints
           /\ nextId' = r.nextId
           /\ last' = Call("updateHandKeypoints", d, Len(handKeypoints), "", <<>>, r.err)
           /\ firstLen' = IF firstLen.hand = 0 /\ d.kind = "frame"
                          THEN [firstLen EXCEPT !.hand = d.len * d.hands] ELSE firstLen
           /\ tick' = Idle
           /\ repeated' = FALSE
           /\ UNCHANGED <<bodyKeypoints, faceKeypoints, anchorVars, offsetVars,
                          env, sessionVars, lastGood>>

\* A read of the necklace anchor, made as call op (with argument label).
ReadNecklace(op, label) ==
    LET n == getNecklaceKeypoint(necklaceKeypoint, faceKeypoints, bodyKeypoints,
                                 necklaceOffsets)
        call == Call(op, NoArg, 0, label, <<n.id>>, NoError)
    IN /\ necklaceKeypoint' = n
       /\ looks' = [looks EXCEPT
                       !.necklace = getNecklaceLook(@, faceKeypoints, bodyKeypoints)]
       /\ last' = call
       /\ lastGood' = IF NecklaceResolves
                      THEN [lastGood EXCEPT !.necklace = Position(n)] ELSE lastGood
       /\ tick' = Idle
       /\ repeated' = (AnchorOf(last) = AnchorOf(call))
       /\ UNCHANGED <<collectionVars, chokerKeypoint, earlobeKeypoints, offsetVars,
                      nextId, env, sessionVars, firstLen>>

\* A read of the choker anchor, made as call op (with argument label).
ReadChoker(op, label) ==
    LET r == getChokerKeypoint(chokerKeypoint, necklaceKeypoint, faceKeypoints,
                               bodyKeypoints, chokerOffsets, necklaceOffsets)
        computed == Resolves("nose")
        call == Call(op, NoArg, 0, label, r.ret, NoError)
    IN /\ chokerKeypoint' = r.choker
       /\ necklaceKeypoint' = r.necklace
       /\ looks' = IF computed
                   THEN [looks EXCEPT
                            !.necklace = getNecklaceLook(@, faceKeypoints, bodyKeypoints)]
                   ELSE looks
       /\ last' = call
       /\ lastGood' = [lastGood EXCEPT
                          !.choker = IF computed THEN Position(r.choker) ELSE @,
                          !.necklace = IF Resolves("nose") /\ NecklaceResolves
                                       THEN Position(r.necklace) ELSE @]
       /\ tick' = IF op = "getChokerKeypoint"
                  THEN TickAfterChokerRead(computed /\ NecklaceResolves, r.choker)
                  ELSE Idle
       /\ repeated' = (AnchorOf(last) = AnchorOf(call))
       /\ UNCHANGED <<collectionVars, earlobeKeypoints, offsetVars, nextId,
                      env, sessionVars, firstLen>>

\* A read of the earlobe anchors; ret picks what the call returns.
ReadEarlobes(op, label, ret) ==
    LET held == <<looks.left_earlobe, looks.right_earlobe>>
        e == getEarlobeKeypoints(earlobeKeypoints, held, faceKeypoints, bodyKeypoints,
                                 leftEarlobeOffsets, rightEarlobeOffsets)
        l == getEarlobeLooks(held, faceKeypoints, bodyKeypoints)
        call == Call(op, NoArg, 0, label, [i \in 1..Len(ret) |-> e[ret[i]].id], NoError)
    IN /\ earlobeKeypoints' = e
       /\ looks' = [looks EXCEPT !.left_earlobe = l[1], !.right_earlobe = l[2]]
       /\ last' = call
       /\ lastGood' = IF EarlobesResolve
                      THEN [lastGood EXCEPT !.left_earlobe = Position(e[1]),
                                            !.right_earlobe = Position(e[2])]
                      ELSE lastGood
       /\ tick' = Idle
       /\ repeated' = (AnchorOf(last) = AnchorOf(call))
       /\ UNCHANGED <<collectionVars, chokerKeypoint, necklaceKeypoint, offsetVars,
                      nextId, env, sessionVars, firstLen>>

GetNecklaceKeypoint ==
    "getNecklaceKeypoint" \in Reads(env) /\ ReadNecklace("getNecklaceKeypoint", "")

GetChokerKeypoint ==
    "getChokerKeypoint" \in Reads(env) /\ ReadChoker("getChokerKeypoint", "")

GetEarlobeKeypoints ==
    "getEarlobeKeypoints" \in Reads(env)
        /\ ReadEarlobes("getEarlobeKeypoints", "", <<1, 2>>)

\* Mesh.getKeypointByLabel(label)
GetKeypointByLabel ==
    "getKeypointByLabel" \in Reads(env) /\ \E label \in LookupLabels(env) :
        IF label = "choker" THEN ReadChoker("getKeypointByLabel", label)
        ELSE IF label = "left_earlobe" \/ label = "right_earlobe"
        THEN ReadEarlobes("getKeypointByLabel", label,
                          IF label = "left_earlobe" THEN <<1>> ELSE <<2>>)
        ELSE IF label = "necklace" THEN ReadNecklace("getKeypointByLabel", label)
        ELSE LET s == ScanByLabel(faceKeypoints, bodyKeypoints, label)
             IN /\ last' = Call("getKeypointByLabel", NoArg, 0, label,
                                IF s.found THEN <<s.kp.id>> ELSE <<>>, NoError)
                /\ tick' = Idle
                /\ repeated' = FALSE
                /\ UNCHANGED <<collectionVars, anchorVars, offsetVars, nextId, env, sessionVars,
                               firstLen, lastGood>>

\* A collection getter returns the collection itself.
ReadCollection(op, keypoints) ==
    /\ op \in Reads(env)
    /\ last' = Call(op, NoArg, 0, "", [i \in 1..Len(keypoints) |-> keypoints[i].id],
                    NoError)
    /\ tick' = Idle
    /\ repeated' = FALSE
    /\ UNCHANGED <<collectionVars, anchorVars, offsetVars, nextId, env, sessionVars, firstLen,
                   lastGood>>

GetBodyKeypoints == ReadCollection("getBodyKeypoints", bodyKeypoints)

GetFaceKeypoints == ReadCollection("getFaceKeypoints", faceKeypoints)

GetHandKeypoints == ReadCollection("getHandKeypoints", handKeypoints)

\* A call that changes no Keypoint and no collection.
Setter(op) ==
    /\ last' = Call(op, NoArg, 0, "", <<>>, NoError)
    /\ tick' = Idle
    /\ repeated' = FALSE
    /\ UNCHANGED <<collectionVars, chokerKeypoint, necklaceKeypoint, earlobeKeypoints,
                   nextId, env, sessionVars, firstLen, lastGood>>

\* Mesh.setChokerOffsets(xOffset, yOffset, zOffset)
SetChokerOffsets ==
    \E o \in ChokerOffsetArgs(env) :
        /\ chokerOffsets' = o
        /\ Setter("setChokerOffsets")
        /\ UNCHANGED <<leftEarlobeOffsets, necklaceOffsets, rightEarlobeOffsets, looks>>

\* Mesh.setLeftEarlobeOffsets(xOffset, yOffset, zOffset)
SetLeftEarlobeOffsets ==
    \E o \in LeftEarlobeOffsetArgs(env) :
        /\ leftEarlobeOffsets' = o
        /\ Setter("setLeftEarlobeOffsets")
        /\ UNCHANGED <<chokerOffsets, necklaceOffsets, rightEarlobeOffsets, looks>>

\* Mesh.setNecklaceOffsets(xOffset, yOffset, zOffset)
SetNecklaceOffsets ==
    \E o \in NecklaceOffsetArgs(env) :
        /\ necklaceOffsets' = o
        /\ Setter("setNecklaceOffsets")
        /\ UNCHANGED <<chokerOffsets, leftEarlobeOffsets, rightEarlobeOffsets, looks>>

\* Mesh.setRightEarlobeOffsets(xOffset, yOffset, zOffset)
SetRightEarlobeOffsets ==
    \E o \in RightEarlobeOffsetArgs(env) :
        /\ rightEarlobeOffsets' = o
        /\ Setter("setRightEarlobeOffsets")
        /\ UNCHANGED <<chokerOffsets, leftEarlobeOffsets, necklaceOffsets, looks>>

\* The loader's callback of Keypoint.display2DAsset on an anchor: the image
\* of the asset has arrived.
Display2DAsset ==
    \E a \in AssetAnchors(env), size \in AssetSizes :
        /\ ~looks[a].displaying
        /\ looks' = [looks EXCEPT ![a] = display2DAsset(@, size[1], size[2])]
        /\ Setter("display2DAsset")
        /\ UNCHANGED offsetVars

Next ==
    \/ UpdateBodyKeypoints
    \/ UpdateFaceKeypoints
    \/ UpdateHandKeypoints
    \/ GetNecklaceKeypoint
    \/ GetChokerKeypoint
    \/ GetEarlobeKeypoints
    \/ GetKeypointByLabel
    \/ GetBodyKeypoints
    \/ GetFaceKeypoints
    \/ GetHandKeypoints
    \/ SetChokerOffsets
    \/ SetLeftEarlobeOffsets
    \/ SetNecklaceOffsets
    \/ SetRightEarlobeOffsets
    \/ Display2DAsset

Spec == Init /\ [][Next]_vars

----------------------------------------------------------------------------
(* Sessions: detectors and renderers at work on one Mesh                   *)
(*                                                                         *)
(*   "body loop"  the BodyDetector, started and stopped by a caller        *)
(*   "face loop"  the FaceDetector, started and stopped by a caller        *)
(*   "hand loop"  the HandDetector, started and stopped by a caller        *)
(*   "video"      the VideoRenderer, started and stopped by a caller       *)
(*   "render"     the three detectors and the MeshRenderer                 *)
(*   "display"    the BodyDetector, the MeshRenderer and a caller that     *)
(*                switches display flags                                   *)
(*   "keypoint"   a caller of the setters of the necklace Keypoint          *)

SessionEnvs ==
    {"body loop", "face loop", "hand loop", "video", "render", "display", "keypoint"}

\* Most calls of start() that return, per runnable.
MaxStarts == 2

\* Most timer callbacks that begin, per detector.
MaxTicks == 3

\* Most estimates a detector awaits at a time.
MaxInFlight == 2

Runners(e) ==
    CASE e = "body loop" -> {"body"}
      [] e = "face loop" -> {"face"}
      [] e = "hand loop" -> {"hand"}
      [] e = "video"     -> {"video"}
      [] e = "render"    -> {"body", "face", "hand", "mesh"}
      [] e = "display"   -> {"body", "mesh"}
      [] OTHER           -> {}

\* How often runnable r is started, and how many callbacks of detector k
\* begin, in environment e.
Starts(e, r) == IF e \in {"render", "display"} THEN 1 ELSE MaxStarts

Ticks(e, k) ==
    CASE e = "render"  -> IF k = "body" THEN MaxInFlight ELSE 1
      [] e = "display" -> 1
      [] OTHER         -> MaxTicks

\* The runnables a caller stops.
Stopped(e) == IF e = "render" THEN {} ELSE Runners(e)

\* What the estimates of detector k come to.
Detections(e, k) ==
    CASE k = "body" ->
            {Nothing, Found(Frame(MaxBodyLen, 1, "provider")),
             Found(Frame(MaxBodyLen, 2, "provider"))}
                \cup (IF e = "render" THEN {} ELSE {Threw})
      [] k = "face" ->
            {Nothing, Found(Frame(MinFaceLen, 1, "detector"))}
                \cup (IF e = "render" THEN {} ELSE {Threw})
      [] k = "hand" ->
            {Found(RelabelledHands(MaxHandLen, 1, 1))}
                \cup (IF e = "render" THEN {}
                      ELSE {Threw, Nothing, Found(RelabelledHands(MaxHandLen, 1, 2))})
      [] OTHER -> {}

\* The display flags a caller switches.
Switched(e) == IF e = "display" THEN {"body", "choker"} ELSE {}

\* The arguments a caller hands to the setters of a Keypoint.
SetterArgs(e) ==
    IF e = "keypoint"
    THEN {Value("number", Num(7)), Value("number", Num(-3)), Value("string", 0),
          Value("undefined", 0)}
    ELSE {}

SessionInit ==
    /\ MeshConstructed
    /\ env \in SessionEnvs
    /\ Constructed

meshVars ==
    <<collectionVars, anchorVars, offsetVars, nextId, env, last, firstLen, lastGood,
      tick, repeated>>

\* The sequence without its i-th element.
Remove(seq, i) == [j \in 1..(Len(seq) - 1) |-> IF j < i THEN seq[j] ELSE seq[j + 1]]

\* The callback of createDetector(...).then(...): the model has loaded.
DetectorReady ==
    \E k \in Runners(env) \cap Detectors :
        /\ ~detector[k]
        /\ detector' = [detector EXCEPT ![k] = TRUE]
        /\ events' = [events EXCEPT
                         ![k] = IF Dispatches(k) THEN dispatchEvent(@, "ready") ELSE @]
        /\ step' = [Did("ready", k) EXCEPT
                       !.emitted = IF Dispatches(k) THEN {"ready"} ELSE {}]
        /\ UNCHANGED <<meshVars, intervalId, timers, pending, display, scene, count,
                       completed>>

\* BodyDetector.start(), FaceDetector.start(), HandDetector.start()
DetectorStart ==
    \E k \in Runners(env) \cap Detectors :
        LET fresh == count[k].starts + 1
            r     == start(k, detector[k], intervalId[k], timers, events[k], fresh)
        IN /\ count[k].starts < Starts(env, k) \/ r.err # NoError
           /\ intervalId' = [intervalId EXCEPT ![k] = r.intervalId]
           /\ timers' = r.timers
           /\ events' = [events EXCEPT ![k] = r.events]
           /\ count' = IF r.err = NoError THEN [count EXCEPT ![k].starts = @ + 1]
                       ELSE count
           /\ step' = [Did("start", k) EXCEPT
                          !.err = r.err, !.timer = r.intervalId,
                          !.emitted = IF r.events = events[k] THEN {} ELSE {"started"}]
           /\ UNCHANGED <<meshVars, detector, pending, display, scene, completed>>

\* RunnableInterval.stop() on a detector or on the VideoRenderer.
Stop ==
    \E r \in Stopped(env) \cap EventTargets :
        LET s == stop(r, intervalId[r], timers, events[r])
        IN /\ intervalId' = [intervalId EXCEPT ![r] = s.intervalId]
           /\ timers' = s.timers
           /\ events' = [events EXCEPT ![r] = s.events]
           /\ step' = [Did("stop", r) EXCEPT
                          !.timer = intervalId[r],
                          !.emitted = IF s.events = events[r] THEN {} ELSE {"stopped"}]
           /\ UNCHANGED <<meshVars, detector, pending, display, scene, count, completed>>

\* A timer of detector k fires: the callback runs up to its await.
DetectorTick ==
    \E k \in Runners(env) \cap Detectors : \E t \in timers :
        /\ t[1] = k
        /\ Len(pending[k]) < MaxInFlight
        /\ count[k].ticks < Ticks(env, k)
        /\ pending' = [pending EXCEPT ![k] = Append(@, t[2])]
        /\ count' = [count EXCEPT ![k].ticks = @ + 1]
        /\ step' = [Did("tick", k) EXCEPT !.timer = t[2]]
        /\ UNCHANGED <<meshVars, detector, intervalId, timers, events, display, scene,
                       completed>>

\* The Mesh's bookkeeping of an ingestion of frame d (n points) that returned r.
Ingested(op, coll, d, n, held, r) ==
    /\ nextId' = r.nextId
    /\ last' = Call(op, d, held, "", <<>>, r.err)
    /\ firstLen' = IF firstLen[coll] = 0 /\ d.kind = "frame"
                   THEN [firstLen EXCEPT ![coll] = n] ELSE firstLen
    /\ completed' = IF r.err = NoError THEN [completed EXCEPT ![coll] = d]
                    ELSE completed

\* The remainder of the BodyDetector's callback, after the await:
\*     if (rawBodies.length > 0) this.mesh.updateBodyKeypoints(rawBodies[0]);
\*     this.dispatchEvent(new CustomEvent("updated", ...));
BodyDetected ==
    \E i \in 1..Len(pending.body), o \in Detections(env, "body") :
        LET found == o.result = "found"
            r     == updateBodyKeypoints(bodyKeypoints, BodyFrame(o.frame), nextId)
            done  == ~found \/ r.err = NoError
        IN /\ pending' = [pending EXCEPT !.body = Remove(@, i)]
           /\ IF found
              THEN /\ bodyKeypoints' = r.keypoints
                   /\ Ingested("updateBodyKeypoints", "body", o.frame, o.frame.len,
                               Len(bodyKeypoints), r)
              ELSE UNCHANGED <<bodyKeypoints, nextId, last, firstLen, completed>>
           /\ events' = IF done THEN [events EXCEPT !.body = dispatchEvent(@, "updated")]
                        ELSE events
           /\ step' = [Did("detected", "body") EXCEPT
                          !.timer = pending.body[i], !.outcome = o,
                          !.err = IF found THEN r.err ELSE NoError,
                          !.ingested = found,
                          !.live = <<"body", pending.body[i]>> \in timers,
                          !.emitted = IF done THEN {"updated"} ELSE {}]
           /\ tick' = Idle
           /\ repeated' = FALSE
           /\ UNCHANGED <<faceKeypoints, handKeypoints, anchorVars, offsetVars, env,
                          lastGood, detector, intervalId, timers, display, scene, count>>

\* The remainder of the FaceDetector's callback, after the await:
\*     let rawFace = null;
\*     if (rawFaces.length > 0) { rawFace = rawFaces[0]; relabel every point }
\*     this.mesh.updateFaceKeypoints(rawFace);
\*     this.dispatchEvent(new CustomEvent("updated", ...));
FaceDetected ==
    \E i \in 1..Len(pending.face), o \in Detections(env, "face") :
        LET rawFace == IF o.result = "found" THEN o.frame
                       ELSE Descriptor("null", 0, 0, "none", 0)
            r       == updateFaceKeypoints(faceKeypoints, FaceFrame(rawFace), nextId)
        IN /\ pending' = [pending EXCEPT !.face = Remove(@, i)]
           /\ faceKeypoints' = r.keypoints
           /\ Ingested("updateFaceKeypoints", "face", rawFace, rawFace.len,
                       Len(faceKeypoints), r)
           /\ events' = IF r.err = NoError
                        THEN [events EXCEPT !.face = dispatchEvent(@, "updated")]
                        ELSE events
           /\ step' = [Did("detected", "face") EXCEPT
                          !.timer = pending.face[i], !.outcome = o, !.err = r.err,
                          !.ingested = TRUE,
                          !.live = <<"face", pending.face[i]>> \in timers,
                          !.emitted = IF r.err = NoError THEN {"updated"} ELSE {}]
           /\ tick' = Idle
           /\ repeated' = FALSE
           /\ UNCHANGED <<bodyKeypoints, handKeypoints, anchorVars, offsetVars, env,
                          lastGood, detector, intervalId, timers, display, scene, count>>

\* The remainder of the HandDetector's callback, after the await:
\*     if (rawHands.length === 0) return;
\*     relabel every point of every hand;
\*     this.mesh.updateHandKeypoints(rawHands);
HandDetected ==
    \E i \in 1..Len(pending.hand), o \in Detections(env, "hand") :
        LET found == o.result = "found"
            r     == updateHandKeypoints(handKeypoints, HandFrame(o.frame), nextId)
        IN /\ pending' = [pending EXCEPT !.hand = Remove(@, i)]
           /\ IF found
              THEN /\ handKeypoints' = r.keypoints
                   /\ Ingested("updateHandKeypoints", "hand", o.frame,
                               o.frame.len * o.frame.hands, Len(handKeypoints), r)
              ELSE UNCHANGED <<handKeypoints, nextId, last, firstLen, completed>>
           /\ step' = [Did("detected", "hand") EXCEPT
                          !.timer = pending.hand[i], !.outcome = o,
                          !.err = IF found THEN r.err ELSE NoError,
                          !.ingested = found,
                          !.live = <<"hand", pending.hand[i]>> \in timers]
           /\ tick' = Idle
           /\ repeated' = FALSE
           /\ UNCHANGED <<bodyKeypoints, faceKeypoints, anchorVars, offsetVars, env,
                          lastGood, detector, intervalId, timers, events, display, scene,
                          count>>

\* VideoRenderer.start()
VideoRendererStart ==
    LET fresh == count.video.starts + 1
        r     == startVideoRenderer(intervalId.video, timers, fresh)
    IN /\ "video" \in Runners(env)
       /\ count.video.starts < Starts(env, "video") \/ r.err # NoError
       /\ intervalId' = [intervalId EXCEPT !.video = r.intervalId]
       /\ timers' = r.timers
       /\ count' = IF r.err = NoError THEN [count EXCEPT !.video.starts = @ + 1]
                   ELSE count
       /\ step' = [Did("start", "video") EXCEPT !.err = r.err, !.timer = r.intervalId]
       /\ UNCHANGED <<meshVars, detector, pending, events, display, scene, completed>>

\* The VideoRenderer's timer fires: the video frame is drawn.
VideoRendererTick ==
    /\ \E t \in timers : t[1] = "video"
    /\ step' = [Did("render", "video") EXCEPT !.timer = intervalId.video]
    /\ UNCHANGED <<meshVars, detector, intervalId, timers, pending, events, display,
                   scene, count, completed>>

\* MeshRenderer.start(drawsPerSecond, glContext, mesh)
MeshRendererStart ==
    LET fresh == count.mesh.starts + 1
        r     == startMeshRenderer(intervalId.mesh, timers, fresh)
    IN /\ "mesh" \in Runners(env)
       /\ count.mesh.starts < Starts(env, "mesh")
       /\ intervalId' = [intervalId EXCEPT !.mesh = r.intervalId]
       /\ timers' = r.timers
       /\ scene' = {}
       /\ count' = [count EXCEPT !.mesh.starts = @ + 1]
       /\ step' = [Did("start", "mesh") EXCEPT !.timer = r.intervalId]
       /\ UNCHANGED <<meshVars, detector, pending, events, display, completed>>

\* MeshRenderer.stop()
MeshRendererStop ==
    LET r == stopMeshRenderer(intervalId.mesh, timers)
    IN /\ "mesh" \in Stopped(env)
       /\ intervalId' = [intervalId EXCEPT !.mesh = r.intervalId]
       /\ timers' = r.timers
       /\ step' = [Did("stop", "mesh") EXCEPT !.timer = intervalId.mesh]
       /\ UNCHANGED <<meshVars, detector, pending, events, display, scene, count,
                      completed>>

\* MeshRenderer.setDisplayBody(displayBody) ... setDisplayNecklace(displayNecklace)
SetDisplay ==
    \E c \in Switched(env), shown \in BOOLEAN :
        /\ display' = [display EXCEPT ![c] = shown]
        /\ step' = Did("setDisplay", c)
        /\ UNCHANGED <<meshVars, detector, intervalId, timers, pending, events, scene,
                       count, completed>>

\* The MeshRenderer's timer fires: the callback of MeshRenderer.start draws
\* the face and body Keypoints, the choker, the necklace and the earlobes.
MeshRendererTick ==
    LET face      == faceKeypoints
        body      == bodyKeypoints
        withFace  == draw(scene, face, display.face)
        withBody  == draw(withFace, body, display.body)
        c         == getChokerKeypoint(chokerKeypoint, necklaceKeypoint, face, body,
                                       chokerOffsets, necklaceOffsets)
        withChoker == draw(withBody, <<c.choker>>, display.choker)
        n         == getNecklaceKeypoint(c.necklace, face, body, necklaceOffsets)
        withNecklace == draw(withChoker, <<n>>, display.necklace)
        held      == <<looks.left_earlobe, looks.right_earlobe>>
        e         == getEarlobeKeypoints(earlobeKeypoints, held, face, body,
                                         leftEarlobeOffsets, rightEarlobeOffsets)
        l         == getEarlobeLooks(held, face, body)
        readLook  == IF Resolves("nose")
                     THEN getNecklaceLook(looks.necklace, face, body)
                     ELSE looks.necklace
    IN /\ \E t \in timers : t[1] = "mesh"
       /\ chokerKeypoint' = c.choker
       /\ necklaceKeypoint' = n
       /\ earlobeKeypoints' = e
       /\ looks' = [looks EXCEPT !.necklace = getNecklaceLook(readLook, face, body),
                                 !.left_earlobe = l[1], !.right_earlobe = l[2]]
       /\ scene' = draw(withNecklace, e, display.earlobes)
       /\ last' = Call("getEarlobeKeypoints", NoArg, 0, "", <<e[1].id, e[2].id>>, NoError)
       /\ tick' = Idle
       /\ repeated' = FALSE
       /\ step' = [Did("render", "mesh") EXCEPT
                      !.timer = intervalId.mesh,
                      !.seen = [body |-> body, face |-> face]]
       /\ UNCHANGED <<collectionVars, offsetVars, nextId, env, firstLen, lastGood,
                      detector, intervalId, timers, pending, events, display, count,
                      completed>>

\* A setter of the necklace Keypoint returned r.
KeypointSet(op, args, r) ==
    /\ necklaceKeypoint' = r.kp
    /\ step' = [Did(op, "necklace") EXCEPT
                   !.err = r.err, !.before = Position(necklaceKeypoint),
                   !.numeric = \A v \in args : v.type = "number"]
    /\ UNCHANGED <<collectionVars, chokerKeypoint, earlobeKeypoints, looks, offsetVars,
                   nextId, env, last, firstLen, lastGood, tick, repeated, detector,
                   intervalId, timers, pending, events, display, scene, count,
                   completed>>

\* Keypoint.setX(x) on the necklace Keypoint
KeypointSetX ==
    \E x \in SetterArgs(env) : KeypointSet("setX", {x}, setX(necklaceKeypoint, x))

\* Keypoint.setY(y) on the necklace Keypoint
KeypointSetY ==
    \E y \in SetterArgs(env) : KeypointSet("setY", {y}, setY(necklaceKeypoint, y))

\* Keypoint.setZ(z) on the necklace Keypoint
KeypointSetZ ==
    \E z \in SetterArgs(env) : KeypointSet("setZ", {z}, setZ(necklaceKeypoint, z))

\* Keypoint.setPosition(x, y, z) on the necklace Keypoint
KeypointSetPosition ==
    \E x \in SetterArgs(env), y \in SetterArgs(env), z \in SetterArgs(env) :
        KeypointSet("setPosition", {x, y, z},
                    setPositionValidated(necklaceKeypoint, x, y, z))

SessionNext ==
    \/ DetectorReady
    \/ DetectorStart
    \/ Stop
    \/ DetectorTick
    \/ BodyDetected
    \/ FaceDetected
    \/ HandDetected
    \/ VideoRendererStart
    \/ VideoRendererTick
    \/ MeshRendererStart
    \/ MeshRendererStop
    \/ SetDisplay
    \/ MeshRendererTick
    \/ KeypointSetX
    \/ KeypointSetY
    \/ KeypointSetZ
    \/ KeypointSetPosition

Session == SessionInit /\ [][SessionNext]_vars

----------------------------------------------------------------------------
(* Properties                                                              *)

Ingestions == {"updateBodyKeypoints", "updateFaceKeypoints", "updateHandKeypoints"}

\* The last call read the anchor with this getter or reserved label.
ReadOf(getter, labels) ==
    \/ last.op = getter
    \/ last.op = "getKeypointByLabel" /\ last.label \in labels

Binary(confidence) == confidence = 0 \/ confidence = Num(1)

\* C1: once a collection (body, face, hands) has received its first non-empty
\* ingestion, of N points, it holds N Keypoints in every later state, whatever
\* is ingested afterwards.
C1_LengthFixed ==
    /\ firstLen.body > 0 => Len(bodyKeypoints) = firstLen.body
    /\ firstLen.face > 0 => Len(faceKeypoints) = firstLen.face
    /\ firstLen.hand > 0 => Len(handKeypoints) = firstLen.hand

\* A later body frame of another length has been ingested.
C1_Witness ==
    /\ last.op = "updateBodyKeypoints"
    /\ last.arg.kind = "frame"
    /\ last.held > 0
    /\ last.arg.len # last.held

\* C2: updateBodyKeypoints with a non-empty frame as long as the collection
\* creates, replaces and reorders nothing: index i holds the object it held
\* before, and the object's position, confidence and label are those raw
\* entry i carries.
C2_SameObjects ==
    [][(/\ last'.op = "updateBodyKeypoints"
        /\ last'.arg.kind = "frame"
        /\ last'.arg.len = Len(bodyKeypoints))
       => /\ Len(bodyKeypoints') = Len(bodyKeypoints)
          /\ nextId' = nextId
          /\ \A i \in 1..Len(bodyKeypoints) :
                LET raw == BodyFrame(last'.arg).keypoints[i]
                    kp  == bodyKeypoints'[i]
                IN /\ kp.id = bodyKeypoints[i].id
                   /\ "x" \in raw.has => kp.x = raw.x
                   /\ "y" \in raw.has => kp.y = raw.y
                   /\ "z" \in raw.has => kp.z = raw.z
                   /\ "score" \in raw.has => kp.confidence = raw.score
                   /\ "name" \in raw.has => kp.label = raw.name]_vars

\* A body frame as long as the collection has been ingested into it.
C2_Witness ==
    /\ last.op = "updateBodyKeypoints"
    /\ last.arg.kind = "frame"
    /\ last.held = last.arg.len
    /\ last.err = NoError
    /\ \E i \in 1..Len(bodyKeypoints) : bodyKeypoints[i].z # 0

C3_Zeroed(keypoints) ==
    [i \in 1..Len(keypoints) |-> [keypoints[i] EXCEPT !.confidence = 0]]

\* C3: an absent or empty ingestion sets the confidence of every Keypoint of
\* its collection to 0 and changes nothing else: positions, labels, length,
\* order, the other two collections, the anchors and the offsets stay.
C3_EmptyIngestion ==
    [][(last'.op \in Ingestions /\ last'.arg.kind # "frame")
       => /\ bodyKeypoints' = IF last'.op = "updateBodyKeypoints"
                              THEN C3_Zeroed(bodyKeypoints) ELSE bodyKeypoints
          /\ faceKeypoints' = IF last'.op = "updateFaceKeypoints"
                              THEN C3_Zeroed(faceKeypoints) ELSE faceKeypoints
          /\ handKeypoints' = IF last'.op = "updateHandKeypoints"
                              THEN C3_Zeroed(handKeypoints) ELSE handKeypoints
          /\ last'.err = NoError
          /\ UNCHANGED <<chokerKeypoint, necklaceKeypoint, earlobeKeypoints,
                         chokerOffsets, necklaceOffsets, nextId>>]_vars

\* An absent body has been ingested into a collection that held a detected
\* pose: the nose keeps its place, with confidence 0, beside a detected face.
C3_Witness ==
    /\ last.op = "updateBodyKeypoints"
    /\ last.arg.kind # "frame"
    /\ last.held > 0
    /\ \E i \in 1..Len(bodyKeypoints) :
          /\ bodyKeypoints[i].label = "nose"
          /\ bodyKeypoints[i].x # 0
          /\ bodyKeypoints[i].confidence = 0
    /\ \E j \in 1..Len(faceKeypoints) : faceKeypoints[j].confidence # 0

C5_BinaryConfidence ==
    /\ ReadOf("getNecklaceKeypoint", {"necklace"}) =>
          /\ Binary(necklaceKeypoint.confidence)
          /\ ~NecklaceResolves => necklaceKeypoint.confidence = 0
    /\ ReadOf("getChokerKeypoint", {"choker"}) =>
          /\ Binary(chokerKeypoint.confidence)
          /\ ~Resolves("nose") => chokerKeypoint.confidence = 0
    /\ ReadOf("getEarlobeKeypoints", {"left_earlobe", "right_earlobe"}) =>
          /\ Binary(earlobeKeypoints[1].confidence)
          /\ Binary(earlobeKeypoints[2].confidence)
          /\ ~EarlobesResolve =>
                earlobeKeypoints[1].confidence = 0 /\ earlobeKeypoints[2].confidence = 0

\* The necklace has been computed from shoulders whose score is neither 0 nor 1.
C5_Witness ==
    /\ last.op = "getNecklaceKeypoint"
    /\ necklaceKeypoint.confidence = Num(1)
    /\ ~Binary(Resolved("left_shoulder").confidence)
    /\ ~Binary(Resolved("right_shoulder").confidence)

\* C6: getChokerKeypoint gives confidence 1 only if the nose is found and the
\* necklace was derivable on that read (necklace confidence 1); with the
\* necklace's own dependencies missing the choker's confidence is 0.
C6_ChokerNeedsNecklace ==
    (last.op = "getChokerKeypoint" /\ chokerKeypoint.confidence = Num(1))
        => Resolves("nose") /\ NecklaceResolves /\ necklaceKeypoint.confidence = Num(1)

\* C7: when a Keypoint an anchor depends on cannot be found by its label, the
\* read of the anchor raises no error, leaves the anchor with confidence 0 and
\* leaves its position as it was after its last successful computation.
C7_StalePosition ==
    /\ (ReadOf("getNecklaceKeypoint", {"necklace"}) /\ ~NecklaceResolves) =>
          /\ last.err = NoError
          /\ necklaceKeypoint.confidence = 0
          /\ Position(necklaceKeypoint) = lastGood.necklace
    /\ (ReadOf("getChokerKeypoint", {"choker"}) /\ ~Resolves("nose")) =>
          /\ last.err = NoError
          /\ chokerKeypoint.confidence = 0
          /\ Position(chokerKeypoint) = lastGood.choker
    /\ (ReadOf("getEarlobeKeypoints", {"left_earlobe", "right_earlobe"})
            /\ ~EarlobeLabelsResolve) =>
          /\ last.err = NoError
          /\ earlobeKeypoints[1].confidence = 0
          /\ earlobeKeypoints[2].confidence = 0
          /\ Position(earlobeKeypoints[1]) = lastGood.left_earlobe
          /\ Position(earlobeKeypoints[2]) = lastGood.right_earlobe

\* The necklace has been read with a dependency missing, after it had been
\* computed away from the origin.
C7_Witness ==
    /\ last.op = "getNecklaceKeypoint"
    /\ ~NecklaceResolves
    /\ lastGood.necklace # Origin
    /\ Position(necklaceKeypoint) = lastGood.necklace

\* C8: after a successful choker read, when the next tick reports no detection
\* for the collection that supplies the nose, getChokerKeypoint gives
\* confidence 0 and the position of the prior successful read.
C8_ChokerAfterEmptyTick ==
    tick.phase = 3 =>
        chokerKeypoint.confidence = 0 /\ Position(chokerKeypoint) = tick.pos

\* C9: when nose and necklace resolve, getChokerKeypoint places the choker, on
\* each of x, y and z, at necklace + (nose - necklace) / 3 + chokerOffset,
\* necklace being the position the necklace read gave.
C9_ChokerFormula ==
    (last.op = "getChokerKeypoint" /\ Resolves("nose") /\ NecklaceResolves) =>
        LET nose     == Position(Resolved("nose"))
            necklace == Position(necklaceKeypoint)
        IN Position(chokerKeypoint) =
              [a \in 1..3 |-> necklace[a] + Div(nose[a] - necklace[a], 3)
                                  + chokerOffsets[a]]

\* The body of the example: shoulders at (60,80,0) and (140,80,0), nose at
\* (100,50,0), and no offsets.
C10_Body ==
    /\ Resolves("left_shoulder")
    /\ Position(Resolved("left_shoulder")) = <<Num(60), Num(80), 0>>
    /\ Resolves("right_shoulder")
    /\ Position(Resolved("right_shoulder")) = <<Num(140), Num(80), 0>>
    /\ Resolves("nose")
    /\ Position(Resolved("nose")) = <<Num(100), Num(50), 0>>
    /\ chokerOffsets = Origin
    /\ necklaceOffsets = Origin

\* The face the example needs: its left, right and bottom edge are found and
\* the bottom edge is as low as the shoulders.
C10_Face ==
    /\ Resolves("left_edge_face")
    /\ Resolves("right_edge_face")
    /\ Resolves("bottom_edge_face")
    /\ Resolved("bottom_edge_face").y = Num(80)

C10_Result ==
    /\ last.op = "getNecklaceKeypoint" =>
          Position(necklaceKeypoint) = <<Num(100), Num(80), 0>>
    /\ last.op = "getChokerKeypoint" =>
          /\ Position(chokerKeypoint) = <<Num(100), Num(70), 0>>
          /\ chokerKeypoint.confidence = Num(1)

\* C10 as stated: with left_shoulder (60,80,0), right_shoulder (140,80,0) and
\* nose (100,50,0) ingested and all offsets zero, getNecklaceKeypoint gives
\* (100,80,0) and getChokerKeypoint gives (100,70,0) with confidence 1.
C10_Example == C10_Body => C10_Result

\* C10 amended: the same, when in addition left_edge_face, right_edge_face and
\* bottom_edge_face have been ingested and bottom_edge_face.y is 80.
C10_ExampleWithFace == (C10_Body /\ C10_Face) => C10_Result

\* The choker has been read in the state of the example.
C10_Witness ==
    /\ last.op = "getChokerKeypoint"
    /\ C10_Body
    /\ C10_Face
    /\ Position(necklaceKeypoint) = <<Num(100), Num(80), 0>>
    /\ Position(chokerKeypoint) = <<Num(100), Num(70), 0>>

Plus(position, offsets) ==
    <<position[1] + offsets[1], position[2] + offsets[2], position[3] + offsets[3]>>

\* What the derivations give on the landmarks of the current state when the
\* offsets of the anchor itself are zero.
NecklaceAtZero ==
    getNecklaceKeypoint(necklaceKeypoint, faceKeypoints, bodyKeypoints, Origin)

ChokerAtZero ==
    getChokerKeypoint(chokerKeypoint, necklaceKeypoint, faceKeypoints, bodyKeypoints,
                      Origin, necklaceOffsets).choker

LeftEarlobeAtZero ==
    getEarlobeKeypoints(earlobeKeypoints, <<looks.left_earlobe, looks.right_earlobe>>,
                        faceKeypoints, bodyKeypoints, Origin, rightEarlobeOffsets)[1]

RightEarlobeAtZero ==
    getEarlobeKeypoints(earlobeKeypoints, <<looks.left_earlobe, looks.right_earlobe>>,
                        faceKeypoints, bodyKeypoints, leftEarlobeOffsets, Origin)[2]

\* The anchor is where the zero-offset derivation puts it, moved by the offsets,
\* and has that derivation's confidence.
MovedBy(anchor, atZero, offsets) ==
    /\ Position(anchor) = Plus(Position(atZero), offsets)
    /\ anchor.confidence = atZero.confidence

EarlobesAtZero ==
    getEarlobeKeypoints(earlobeKeypoints, <<looks.left_earlobe, looks.right_earlobe>>,
                        faceKeypoints, bodyKeypoints, Origin, Origin)

RightBehindLeft == Resolved("right_edge_face").z - Resolved("left_edge_face").z

\* C14: after an earlobe read whose dependencies all resolve, the right
\* earlobe's confidence is 0 exactly when right_edge_face.z - left_edge_face.z
\* > 40 and 1 otherwise, and the left earlobe's confidence is 0 exactly when
\* left_edge_face.z - right_edge_face.z > 40 and 1 otherwise.
C14_EarlobeHidden ==
    (AnchorOf(last) = "earlobes" /\ EarlobesResolve) =>
        /\ earlobeKeypoints[2].confidence = IF RightBehindLeft > 40 * Unit THEN 0 ELSE Unit
        /\ earlobeKeypoints[1].confidence = IF -RightBehindLeft > 40 * Unit THEN 0 ELSE Unit

\* The earlobes have been read on a head whose right edge lies exactly 40
\* behind its left edge: neither earlobe is hidden.
C14_Witness ==
    /\ last.op = "getEarlobeKeypoints"
    /\ EarlobesResolve
    /\ RightBehindLeft = 40 * Unit
    /\ earlobeKeypoints[1].confidence = Unit
    /\ earlobeKeypoints[2].confidence = Unit

\* The earlobes have been read on a head rotated left (right): the right
\* (left) earlobe is hidden and the other one is not.
C14_HiddenRight ==
    /\ last.op = "getEarlobeKeypoints"
    /\ EarlobesResolve
    /\ RightBehindLeft = 45 * Unit
    /\ earlobeKeypoints[1].confidence = Unit
    /\ earlobeKeypoints[2].confidence = 0

C14_HiddenLeft ==
    /\ last.op = "getEarlobeKeypoints"
    /\ EarlobesResolve
    /\ RightBehindLeft = -45 * Unit
    /\ earlobeKeypoints[1].confidence = 0
    /\ earlobeKeypoints[2].confidence = Unit

\* C15: a read of an anchor (choker, necklace, earlobes) that directly follows
\* a read of the same anchor changes nothing: position, confidence, scale and
\* rotation of the anchor are those the first read left.
C15_ReadTwice ==
    [][(AnchorOf(last') # "none" /\ AnchorOf(last') = AnchorOf(last)) =>
            /\ AnchorOf(last') = "choker" =>
                  chokerKeypoint' = chokerKeypoint /\ looks'.choker = looks.choker
            /\ AnchorOf(last') \in {"choker", "necklace"} =>
                  necklaceKeypoint' = necklaceKeypoint /\ looks'.necklace = looks.necklace
            /\ AnchorOf(last') = "earlobes" =>
                  earlobeKeypoints' = earlobeKeypoints /\ looks' = looks]_vars

\* The earlobes have been read twice in a row, resolved, with an asset on the
\* left one and offsets set.
C15_Witness ==
    /\ repeated
    /\ AnchorOf(last) = "earlobes"
    /\ EarlobesResolve
    /\ looks.left_earlobe.displaying
    /\ looks.left_earlobe.scaleX # One
    /\ leftEarlobeOffsets # Origin

\* The necklace has been read twice in a row with an asset attached.
C15_NecklaceTwice ==
    /\ repeated
    /\ last.op = "getNecklaceKeypoint"
    /\ NecklaceResolves
    /\ looks.necklace.displaying

\* The label the face provider supplies for JavaScript index j: none is the
\* value undefined.
ProvidedFaceLabel(j) ==
    IF FaceProviderNames(j) = <<>> THEN undefined ELSE FaceProviderNames(j)[1]

\* The label C16 expects at JavaScript index j.
ExpectedFaceLabel(j) ==
    CASE j = 10  -> "top_edge_face"
      [] j = 152 -> "bottom_edge_face"
      [] j = 164 -> "midpoint_between_nose_and_mouth"
      [] j = 234 -> "right_edge_face"
      [] j = 454 -> "left_edge_face"
      [] OTHER   -> ProvidedFaceLabel(j)

\* C16: after a non-empty face ingestion delivered by the FaceDetector, the
\* face Keypoints the frame covers carry top_edge_face, bottom_edge_face,
\* midpoint_between_nose_and_mouth, right_edge_face and left_edge_face at
\* indices 10, 152, 164, 234 and 454, and the provider's label at every other
\* index.
C16_FaceLabels ==
    (/\ last.op = "updateFaceKeypoints"
     /\ last.arg.kind = "frame"
     /\ last.arg.names = "detector") =>
        \A i \in 1..Len(faceKeypoints) :
            i <= last.arg.len => faceKeypoints[i].label = ExpectedFaceLabel(i - 1)

\* A full frame of the FaceDetector has been ingested: all five indices are
\* named, and index 0 carries the provider's name.
C16_Witness ==
    /\ last.op = "updateFaceKeypoints"
    /\ last.arg.names = "detector"
    /\ last.arg.len = MaxFaceLen
    /\ last.err = NoError
    /\ Len(faceKeypoints) = MaxFaceLen
    /\ faceKeypoints[455].label = "left_edge_face"
    /\ faceKeypoints[235].label = "right_edge_face"
    /\ faceKeypoints[1].label = "lips"
    /\ faceKeypoints[2].label = undefined

\* Raw point i of hand h of the hand frame d, as handed to the Mesh.
HandRaw(d, h, i) == HandFrame(d).hands[h].keypoints[i]

\* C17: after the ingestion of a frame of the HandDetector with a Left and a
\* Right hand, every raw point of both hands is held by the hand collection
\* under its prefixed label ("left_..." or "right_..."), at its position.
C17_BothHandsStored ==
    (/\ last.op = "updateHandKeypoints"
     /\ last.arg.kind = "frame"
     /\ last.arg.names = "detector"
     /\ last.arg.hands = 2) =>
        \A h \in 1..2, i \in 1..last.arg.len :
            \E k \in 1..Len(handKeypoints) :
                /\ handKeypoints[k].label = HandRaw(last.arg, h, i).name
                /\ handKeypoints[k].x = HandRaw(last.arg, h, i).x
                /\ handKeypoints[k].y = HandRaw(last.arg, h, i).y

\* ret is the first Keypoint of the collection that carries the label.
FirstWith(keypoints, label, ret) ==
    \E i \in 1..Len(keypoints) :
        /\ keypoints[i].label = label
        /\ \A k \in 1..(i - 1) : keypoints[k].label # label
        /\ ret = <<keypoints[i].id>>

Carries(keypoints, label) == \E i \in 1..Len(keypoints) : keypoints[i].label = label

\* C18: getKeypointByLabel returns the persistent anchor for choker, necklace,
\* left_earlobe and right_earlobe; for any other label the lowest-index face
\* Keypoint with the label, else the lowest-index body Keypoint with it, else
\* nothing (hand Keypoints are not looked at).
C18_Lookup ==
    last.op = "getKeypointByLabel" =>
        CASE last.label = "choker" -> last.ret = <<chokerKeypoint.id>>
          [] last.label = "necklace" -> last.ret = <<necklaceKeypoint.id>>
          [] last.label = "left_earlobe" -> last.ret = <<earlobeKeypoints[1].id>>
          [] last.label = "right_earlobe" -> last.ret = <<earlobeKeypoints[2].id>>
          [] OTHER ->
                IF Carries(faceKeypoints, last.label)
                THEN FirstWith(faceKeypoints, last.label, last.ret)
                ELSE IF Carries(bodyKeypoints, last.label)
                THEN FirstWith(bodyKeypoints, last.label, last.ret)
                ELSE last.ret = <<>>

\* A label carried by two face Keypoints and a body Keypoint has been looked
\* up: the first of the face Keypoints is returned.
C18_Witness ==
    /\ last.op = "getKeypointByLabel"
    /\ last.label = "nose"
    /\ Len(faceKeypoints) = Len(RepeatingFaceNames)
    /\ faceKeypoints[2].label = "nose"
    /\ faceKeypoints[5].label = "nose"
    /\ Carries(bodyKeypoints, "nose")
    /\ last.ret = <<faceKeypoints[2].id>>

\* A label that only a hand Keypoint carries has been looked up: nothing is
\* returned.
C18_HandOnly ==
    /\ last.op = "getKeypointByLabel"
    /\ last.label = "wrist"
    /\ Carries(handKeypoints, "wrist")
    /\ last.ret = <<>>

\* The necklace has been looked up while a face Keypoint carries the label
\* "necklace": the anchor is returned.
C18_ReservedWins ==
    /\ last.op = "getKeypointByLabel"
    /\ last.label = "necklace"
    /\ Carries(faceKeypoints, "necklace")
    /\ last.ret = <<necklaceKeypoint.id>>
    /\ necklaceKeypoint.id = 4

\* A label that only a body Keypoint carries has been looked up.
C18_BodyOnly ==
    /\ last.op = "getKeypointByLabel"
    /\ last.label = "left_shoulder"
    /\ Len(faceKeypoints) > 0
    /\ FirstWith(bodyKeypoints, "left_shoulder", last.ret)

\* C19: a collection that has never received a non-empty ingestion is empty,
\* and its getter returns an empty sequence and raises no error.
C19_NeverIngestedEmpty ==
    /\ firstLen.body = 0 =>
          /\ bodyKeypoints = <<>>
          /\ last.op = "getBodyKeypoints" => (last.ret = <<>> /\ last.err = NoError)
    /\ firstLen.face = 0 =>
          /\ faceKeypoints = <<>>
          /\ last.op = "getFaceKeypoints" => (last.ret = <<>> /\ last.err = NoError)
    /\ firstLen.hand = 0 =>
          /\ handKeypoints = <<>>
          /\ last.op = "getHandKeypoints" => (last.ret = <<>> /\ last.err = NoError)

\* The getter of a collection that never received a frame has been called
\* after another collection was filled.
C19_Witness ==
    /\ last.op = "getBodyKeypoints"
    /\ firstLen.body = 0
    /\ firstLen.hand > 0
    /\ last.ret = <<>>
    /\ last.err = NoError

\* An ingestion without a detection has reached a collection that never
\* received a frame, while another collection is filled.
C19_AbsentIngestion ==
    /\ last.op = "updateFaceKeypoints"
    /\ last.arg.kind = "null"
    /\ firstLen.face = 0
    /\ firstLen.body > 0
    /\ faceKeypoints = <<>>

\* A raw point, as handed to the Mesh, that carries no name.
Unnamed(raw) == "name" \notin raw.has \/ raw.name = "" \/ raw.name = undefined

Numeric(kp) == kp.x \in Int /\ kp.y \in Int /\ kp.z \in Int /\ kp.confidence \in Int

\* A Keypoint that received the raw point has 0 for a missing z and 1 for a
\* missing score.
Filled(kp, raw) ==
    /\ "z" \notin raw.has => kp.z = 0
    /\ "score" \notin raw.has => kp.confidence = Num(1)

\* Position, confidence are numbers everywhere, and the last ingestion filled
\* the fields its frame omits.
C20_Numbers ==
    /\ \A i \in 1..Len(bodyKeypoints) : Numeric(bodyKeypoints[i])
    /\ \A i \in 1..Len(faceKeypoints) : Numeric(faceKeypoints[i])
    /\ \A i \in 1..Len(handKeypoints) : Numeric(handKeypoints[i])
    /\ Numeric(chokerKeypoint) /\ Numeric(necklaceKeypoint)
    /\ Numeric(earlobeKeypoints[1]) /\ Numeric(earlobeKeypoints[2])
    /\ (last.op = "updateBodyKeypoints" /\ last.arg.kind = "frame") =>
          \A i \in 1..Len(bodyKeypoints) :
              i <= last.arg.len =>
                  Filled(bodyKeypoints[i], BodyFrame(last.arg).keypoints[i])
    /\ (last.op = "updateFaceKeypoints" /\ last.arg.kind = "frame") =>
          \A i \in 1..Len(faceKeypoints) :
              i <= last.arg.len =>
                  Filled(faceKeypoints[i], FaceFrames[last.arg].keypoints[i])
    /\ (last.op = "updateHandKeypoints" /\ last.arg.kind = "frame") =>
          \A i \in 1..Len(handKeypoints) :
              i <= last.arg.len =>
                  Filled(handKeypoints[i], HandRaw(last.arg, last.arg.hands, i))

\* A stored label is empty only where some frame of the session hands the
\* Mesh an unnamed point for the Keypoint (hand Keypoints hold the points of
\* the hands one after the other).
C20_Labels ==
    /\ \A i \in 1..Len(bodyKeypoints) :
          bodyKeypoints[i].label \in {"", undefined} =>
              \E d \in BodyArgs(env) :
                  d.kind = "frame" /\ i <= d.len /\ Unnamed(BodyFrame(d).keypoints[i])
    /\ \A i \in 1..Len(faceKeypoints) :
          faceKeypoints[i].label \in {"", undefined} =>
              \E d \in FaceArgs(env) :
                  d.kind = "frame" /\ i <= d.len /\ Unnamed(FaceFrames[d].keypoints[i])
    /\ \A i \in 1..Len(handKeypoints) :
          handKeypoints[i].label \in {"", undefined} =>
              \E d \in HandArgs(env) :
                  /\ d.kind = "frame"
                  /\ i <= d.len * d.hands
                  /\ Unnamed(HandRaw(d, ((i - 1) \div d.len) + 1, ((i - 1) % d.len) + 1))

\* C20: every Keypoint held by the Mesh has a numeric x, y, z and confidence,
\* ingestion fills the fields a provider omits (z with 0, score with
\* confidence 1), and a stored label is empty only for a point that reached
\* the Mesh unnamed.
C20_KeypointsDefined == C20_Numbers /\ C20_Labels

----------------------------------------------------------------------------
(* Detectors and renderers                                                 *)

\* The collection detector k feeds.
CollectionOf(k) ==
    CASE k = "body" -> bodyKeypoints
      [] k = "face" -> faceKeypoints
      [] OTHER      -> handKeypoints

\* C21: when the remainder of a detector's callback has run on an estimate
\* that rejected or found nothing, no error escaped, the Mesh received an
\* empty ingestion, and every Keypoint of the detector's collection has
\* confidence 0.
C21_FailedTickZeroes ==
    (step.op = "detected" /\ step.outcome.result # "found")
        => /\ step.err = NoError
           /\ step.ingested
           /\ \A i \in 1..Len(CollectionOf(step.who)) :
                  CollectionOf(step.who)[i].confidence = 0

\* C22: once stop() has returned on a detector, the Mesh receives no further
\* ingestion from it: the remainder of a callback that runs after the timer
\* that began it was cancelled ingests nothing.
C22_NothingAfterStop ==
    (step.op = "detected" /\ ~step.live) => ~step.ingested

\* The Keypoints a render callback read from collection coll are those the
\* last ingestion into coll that returned has left: every point of its frame
\* applied, or every confidence 0 after an ingestion without detection, or
\* none before the first ingestion.
LeftByLastIngestion(coll, keypoints) ==
    LET d     == completed[coll]
        frame == IF coll = "body" THEN BodyFrame(d).keypoints ELSE FaceFrame(d).keypoints
    IN CASE d.kind = "frame" ->
                /\ Len(keypoints) = Len(frame)
                /\ \A i \in 1..Len(keypoints) :
                       copyRawKeypoint(keypoints[i], frame[i]) = keypoints[i]
         [] d.kind = "null" ->
                \A i \in 1..Len(keypoints) : keypoints[i].confidence = 0
         [] OTHER -> keypoints = <<>>

\* C23: however the callbacks of the detectors interleave with the render
\* callback, each collection the render callback reads is in the state the
\* most recently completed ingestion of that collection left, never in a
\* state where only some Keypoints of an ingestion are applied.
C23_RenderSeesWholeIngestions ==
    (step.op = "render" /\ step.who = "mesh")
        => /\ LeftByLastIngestion("body", step.seen.body)
           /\ LeftByLastIngestion("face", step.seen.face)

\* A render callback has run while a second estimate of the BodyDetector was
\* awaited, after ingestions of a body, a face and a hand.
C23_Witness ==
    /\ step.op = "render" /\ step.who = "mesh"
    /\ Len(step.seen.body) > 0 /\ Len(step.seen.face) > 0
    /\ Len(pending.body) > 0
    /\ completed.hand.kind = "frame"

\* The Keypoints of a category of the MeshRenderer.
KeypointsOf(category) ==
    CASE category = "body"     -> bodyKeypoints
      [] category = "face"     -> faceKeypoints
      [] category = "choker"   -> <<chokerKeypoint>>
      [] category = "necklace" -> <<necklaceKeypoint>>
      [] OTHER                 -> earlobeKeypoints

\* Whether every visual in the scene belongs to a Keypoint of a category.
SceneOfCategories ==
    scene \subseteq UNION {{KeypointsOf(c)[i].id : i \in 1..Len(KeypointsOf(c))} :
                           c \in Categories}

\* C24 (as amended): after a render callback, the visual of a Keypoint is in
\* the scene if the Keypoint's confidence is at least the renderer's minimum
\* confidence and the display flag of its category is on, and is not in the
\* scene otherwise; no other visual is in the scene.
C24_SceneAtLeastMinimum ==
    (step.op = "render" /\ step.who = "mesh")
        => /\ SceneOfCategories
           /\ \A c \in Categories : \A i \in 1..Len(KeypointsOf(c)) :
                  KeypointsOf(c)[i].id \in scene
                      <=> (display[c] /\ KeypointsOf(c)[i].confidence >= minimumConfidence)

\* C24 (as stated): after a render callback, the visual of a Keypoint is in
\* the scene only if the Keypoint's confidence is above the renderer's minimum
\* confidence and the display flag of its category is on.
C24_SceneAboveMinimum ==
    (step.op = "render" /\ step.who = "mesh")
        => /\ SceneOfCategories
           /\ \A c \in Categories : \A i \in 1..Len(KeypointsOf(c)) :
                  KeypointsOf(c)[i].id \in scene
                      => (display[c] /\ KeypointsOf(c)[i].confidence > minimumConfidence)

\* A render callback has run with the choker switched off and the body on:
\* the scene holds a body Keypoint whose confidence equals the minimum, and
\* not the choker, whose confidence is 1.
C24_Witness ==
    /\ step.op = "render" /\ step.who = "mesh"
    /\ display.body /\ ~display.choker
    /\ chokerKeypoint.confidence = Num(1) /\ chokerKeypoint.id \notin scene
    /\ \E i \in 1..Len(bodyKeypoints) :
           bodyKeypoints[i].confidence = minimumConfidence /\ bodyKeypoints[i].id \in scene

\* C25: a detector dispatches "updated" on a tick only if on that tick it
\* detected its body part and updated the Mesh: the remainder of a callback
\* whose estimate rejected or found nothing dispatches no "updated".
C25_UpdatedMeansDetected ==
    (step.op = "detected" /\ "updated" \in step.emitted)
        => (step.outcome.result = "found" /\ step.ingested)

\* The timers the browser holds for runnable r.
TimersOf(r, held) == {t \in held : t[1] = r}

C27_StartGuards ==
    /\ [](\A k \in Detectors : Cardinality(TimersOf(k, timers)) <= 1)
    /\ [][\A k \in Detectors :
            (step'.op = "start" /\ step'.who = k)
                => IF ~detector[k]
                   THEN /\ step'.err = NotInitialized
                        /\ UNCHANGED <<intervalId, timers, events>>
                   ELSE IF isRunning(intervalId[k])
                   THEN /\ step'.err = AlreadyRunning
                        /\ UNCHANGED <<intervalId, timers, events>>
                   ELSE /\ step'.err = NoError
                        /\ isRunning(intervalId'[k])
                        /\ TimersOf(k, timers') = {<<k, intervalId'[k]>>}]_vars

\* start() has thrown "Already running." on a detector that runs on the timer
\* of its second start.
C27_Witness ==
    /\ step.op = "start" /\ step.who \in Detectors
    /\ step.err = AlreadyRunning
    /\ count[step.who].starts = MaxStarts
    /\ TimersOf(step.who, timers) = {<<step.who, intervalId[step.who]>>}

\* start() has thrown "Detector not initialized.".
C27_NotInitialized ==
    /\ step.op = "start" /\ step.who \in Detectors
    /\ step.err = NotInitialized
    /\ timers = {}

----------------------------------------------------------------------------
(* Earlobes, ingestion lengths and setters                                 *)

\* Depths of the two edges of the face, on both sides of every threshold.
Depths == {Num(d) : d \in {-100, -41, -40, -20, 0, 20, 40, 41, 100}}

\* C28: whenever every earlobe dependency resolves, an earlobe read never
\* leaves both earlobes at confidence 0: the two rotation tests exclude each
\* other for every pair of depths of left_edge_face and right_edge_face.
C28_NeverBothHidden ==
    /\ (AnchorOf(last) = "earlobes" /\ EarlobesResolve)
           => ~(earlobeKeypoints[1].confidence = 0 /\ earlobeKeypoints[2].confidence = 0)
    /\ \A l \in Depths, r \in Depths :
           ~(isRotatedLeft([z |-> l], [z |-> r]) /\ isRotatedRight([z |-> l], [z |-> r]))

\* The earlobes have been read on a head rotated by more than 40 to one side:
\* one earlobe is hidden, the other is not.
C28_Witness ==
    /\ last.op = "getEarlobeKeypoints"
    /\ EarlobesResolve
    /\ Abs(RightBehindLeft) > Num(40)
    /\ earlobeKeypoints[1].confidence + earlobeKeypoints[2].confidence = Num(1)

\* Number of points of the frame an ingestion handed to the Mesh.
PointsOf(call) ==
    IF call.op = "updateHandKeypoints" THEN call.arg.len * call.arg.hands
    ELSE call.arg.len

\* C29: a non-empty body, face or hand ingestion whose number of points
\* differs from the number of Keypoints the collection is locked to, be it
\* smaller or larger, completes without raising an error.
C29_OtherLengthNoError ==
    (/\ last.op \in {"updateBodyKeypoints", "updateFaceKeypoints", "updateHandKeypoints"}
     /\ last.arg.kind = "frame"
     /\ last.held > 0
     /\ PointsOf(last) # last.held)
        => last.err = NoError


Setters == {"setX", "setY", "setZ", "setPosition"}

\* C30: Keypoint.setX, setY, setZ and setPosition called with a coordinate
\* that is not a number throw an error and leave the Keypoint's x, y and z as
\* they were before the call; setPosition with a valid x and a non-numeric y
\* or z does not change x.
C30_RejectedSetterChangesNothing ==
    (step.op \in Setters /\ ~step.numeric)
        => /\ step.err # NoError
           /\ Position(necklaceKeypoint) = step.before

====
